---- MODULE Spec2Model ----
(***************************************************************************)
(* The interactive remote-shell bridge of the cnap CLI (`installs exec`).  *)
(*                                                                         *)
(* runExec dials a WebSocket, puts the local terminal into raw mode and    *)
(* relays frames between the terminal and the remote shell.  Two versions  *)
(* of runExec are in the source and both are modelled, selected by impl:   *)
(*   "monitor" : internal/cmd/clusters/clusters.go:494 (package installs), *)
(*               resize watcher in its own goroutine (monitorResize) and   *)
(*               an interrupt goroutine selecting on sigCh / done;         *)
(*   "sigloop" : unnamed/part_008:755, one goroutine ranging over a single *)
(*               1-slot channel fed by SIGWINCH, SIGINT and SIGTERM.       *)
(* The process is started by cmd/cnap/main.go:26, which registers SIGINT   *)
(* with signal.NotifyContext and hands the context down to runExec.        *)
(*                                                                         *)
(* Next to the session (Spec, FairSpec) the module has one specification   *)
(* for each part of the program that is checked on its own:                *)
(*   CodecSpec : json.Marshal / json.Unmarshal of wsMessage, byte level;   *)
(*   PollSpec  : the polling monitorResize (installs/exec_windows.go:33);  *)
(*   CmdSpec   : the exec command's RunE (clusters.go:414);                *)
(*   VerSpec   : versionGreaterThan (internal/update/update.go:172);       *)
(*   UpdSpec   : CheckForUpdate (internal/update/update.go:58);            *)
(*   ExeSpec   : Execute and its update-check goroutine (part_005:30);     *)
(*   TokSpec   : pollForToken (internal/cmd/auth/device.go:160).           *)
(***************************************************************************)
EXTENDS Integers, Sequences, FiniteSets, TLC

(***************************************************************************)
(* Bounds of the model.                                                    *)
(***************************************************************************)
MaxEvents == 2   \* environment events in one session: messages from the
                 \* remote, chunks typed on standard input, terminal size
                 \* changes and SIGINT / SIGTERM deliveries
MaxChunk == 2    \* bytes in one string of a frame given to the codec
MaxObs == 5      \* size queries of the polling resize watcher

(***************************************************************************)
(* Values.                                                                 *)
(***************************************************************************)
Impls     == {"monitor", "sigloop"}
Flows     == {"main", "outbound", "monitor", "sig"}
Sizes     == {<<80, 24>>, <<100, 0>>}
Chunks    == {"x"}
HTTPStatuses == {401}
NoStatus  == 0

Nil            == [kind |-> "nil", status |-> NoStatus]
ErrParseURL    == [kind |-> "parsing auth URL", status |-> NoStatus]
ErrNotTerminal == [kind |-> "stdin is not a terminal", status |-> NoStatus]
ErrMakeRaw     == [kind |-> "setting raw terminal mode", status |-> NoStatus]
NotReturned    == [kind |-> "none", status |-> NoStatus]

\* clusters.go:526-531: the status is part of the error only when resp # nil.
DialErrorDropsStatus(resp) == [kind |-> "WebSocket connection failed", status |-> NoStatus]

DialError(resp) ==
    IF resp # NoStatus
    THEN [kind |-> "WebSocket connection failed", status |-> resp]
    ELSE [kind |-> "WebSocket connection failed", status |-> NoStatus]

(***************************************************************************)
(* wsMessage and its JSON encoding (encoding/json with omitempty).         *)
(***************************************************************************)
EmptyObj == [k \in {} |-> 0]

wsMessage(t, d, m, c, r) == [Type |-> t, Data |-> d, Message |-> m, Cols |-> c, Rows |-> r]

OmitEmpty(key, v, zero) == IF v = zero THEN EmptyObj ELSE (key :> v)

\* json.Marshal(wsMessage{...}): "type" always, the other fields omitempty.
Marshal(msg) ==
    ("type" :> msg.Type)
        @@ OmitEmpty("data", msg.Data, "")
        @@ OmitEmpty("message", msg.Message, "")
        @@ OmitEmpty("cols", msg.Cols, 0)
        @@ OmitEmpty("rows", msg.Rows, 0)

Field(obj, key, zero) == IF key \in DOMAIN obj THEN obj[key] ELSE zero

\* json.Unmarshal(data, &msg) on a well-formed JSON object: absent fields
\* keep their zero value.
Unmarshal(obj) ==
    wsMessage(Field(obj, "type", ""), Field(obj, "data", ""),
              Field(obj, "message", ""), Field(obj, "cols", 0), Field(obj, "rows", 0))

NoFrame == [type |-> "none"]

\* What the remote may put on the connection: a raw text message that is
\* either well-formed JSON (ok) carrying an object, or garbage.
RemoteMsgs ==
    { [ok |-> TRUE,  obj |-> [type |-> "output", data |-> "a"]],
      [ok |-> TRUE,  obj |-> [type |-> "output", data |-> "b"]],
      [ok |-> TRUE,  obj |-> [type |-> "error", message |-> "e"]],
      [ok |-> TRUE,  obj |-> [type |-> "close"]],
      [ok |-> TRUE,  obj |-> [type |-> "ping"]],
      [ok |-> FALSE, obj |-> EmptyObj] }

NoMsg == [ok |-> FALSE, obj |-> NoFrame]

VARIABLES
    impl,          \* which runExec is running
    stdinTTY,      \* term.IsTerminal(os.Stdin.Fd())
    stdoutTTY,     \* term.GetSize(os.Stdout.Fd()) succeeds
    termSize,      \* current size of the local terminal
    termMode,      \* "cooked" | "raw"
    rawAcquired,   \* term.MakeRaw succeeded in this session
    restoreCount,  \* calls of term.Restore(fd, oldState)
    mainPc,        \* position of runExec
    defers,        \* deferred calls of runExec, last pushed first run
    retVal,        \* the error runExec returns
    exitCode,      \* process exit status, -1 while running
    killed,        \* process ended by a signal's default action
    ctxCancelled,  \* ctx (derived from main's NotifyContext) is cancelled
    conn,          \* "none" | "open" | "closed"
    dialCount,     \* calls of websocket.Dial
    dialResult,    \* "none" | "ok" | "failed"
    dialResp,      \* status of the handshake response, NoStatus if none
    wire,          \* JSON objects written to the connection, in order
    pending,       \* per flow: the frame it is writing inside conn.Write
    inbPc, rdMsg,  \* inbound pump and the message it has read
    outPc,         \* outbound pump
    resPc,         \* monitorResize goroutine ("monitor" only)
    sigPc,         \* interrupt goroutine ("monitor") / signal loop ("sigloop")
    sigCh,         \* runExec's signal channel, capacity 1
    notified,      \* signals registered on sigCh
    winchCh,       \* monitorResize's channel, capacity 1
    winchNotified, \* SIGWINCH registered on winchCh
    doneCloses,    \* close(done) executions
    resizeStopCloses, \* close(resizeStop) executions
    received,      \* messages returned by conn.Read, in order
    stdout,        \* data written to os.Stdout, in order
    stderr,        \* notices written to os.Stderr, in order
    nEvents,       \* environment events so far
    intrActive,    \* an interrupt signal was delivered while Active
    outFailed,     \* the outbound pump ended on an I/O error
    endCause,      \* why the inbound pump ended
    trigger,       \* the first event that ends an Active session
    closeCalls,    \* calls of conn.Close(StatusNormalClosure, "")
    codec,         \* a frame taken through json.Marshal and json.Unmarshal
    poll,          \* the polling monitorResize and the terminal it watches
    cmd,           \* one run of the exec command's RunE
    ver,           \* one comparison by versionGreaterThan
    upd,           \* one call of CheckForUpdate
    exe,           \* one call of Execute and its update-check goroutine
    tok            \* one call of pollForToken and the clock it reads

sessionVars == << impl, stdinTTY, stdoutTTY, termSize, termMode, rawAcquired,
           restoreCount, mainPc, defers, retVal, exitCode, killed,
           ctxCancelled, conn, dialCount, dialResult, dialResp, wire, pending,
           inbPc, rdMsg, outPc, resPc, sigPc, sigCh, notified, winchCh, winchNotified, doneCloses,
           resizeStopCloses, received, stdout, stderr, nEvents,
           intrActive, outFailed, endCause, trigger, closeCalls >>

unitVars == << codec, poll, cmd, ver, upd, exe, tok >>
vars == << sessionVars, unitVars >>

closeVars == << trigger, closeCalls >>
termVars == << termMode, rawAcquired, restoreCount >>
envVars  == << impl, stdinTTY, stdoutTTY >>
pumpVars == << inbPc, rdMsg, outPc, received, stdout, stderr, outFailed, endCause >>
sigVars  == << sigCh, notified, winchCh, winchNotified, intrActive >>
chanVars == << doneCloses, resizeStopCloses >>
mainVars == << mainPc, defers, retVal, exitCode >>
dialVars == << dialCount, dialResult, dialResp >>

SessionInit ==
    /\ impl \in Impls
    /\ stdinTTY \in BOOLEAN
    /\ stdoutTTY \in BOOLEAN
    /\ termSize = <<80, 24>>
    /\ termMode = "cooked"
    /\ rawAcquired = FALSE
    /\ restoreCount = 0
    /\ mainPc = "parse"
    /\ defers = << >>
    /\ retVal = NotReturned
    /\ exitCode = -1
    /\ killed = FALSE
    /\ ctxCancelled = FALSE
    /\ conn = "none"
    /\ dialCount = 0
    /\ dialResult = "none"
    /\ dialResp = NoStatus
    /\ wire = << >>
    /\ pending = [f \in Flows |-> NoFrame]
    /\ inbPc = "idle"
    /\ rdMsg = NoMsg
    /\ outPc = "idle"
    /\ resPc = "idle"
    /\ sigPc = "idle"
    /\ sigCh = << >>
    /\ notified = {}
    /\ winchCh = << >>
    /\ winchNotified = FALSE
    /\ doneCloses = 0
    /\ resizeStopCloses = 0
    /\ received = << >>
    /\ stdout = << >>
    /\ stderr = << >>
    /\ nEvents = 0
    /\ intrActive = FALSE
    /\ outFailed = FALSE
    /\ endCause = "none"
    /\ trigger = "none"
    /\ closeCalls = 0

\* The session before runExec is called, on a terminal.
SessionIdle == SessionInit /\ impl = "monitor" /\ stdinTTY /\ stdoutTTY

CodecOff == [pc |-> "off"]
PollOff  == [pc |-> "off"]
CmdOff   == [pc |-> "off"]
VerOff   == [pc |-> "off"]
UpdOff   == [pc |-> "off"]
ExeOff   == [pc |-> "off"]
TokOff   == [pc |-> "off"]

Init ==
    /\ SessionInit
    /\ codec = CodecOff /\ poll = PollOff /\ cmd = CmdOff /\ ver = VerOff /\ upd = UpdOff /\ exe = ExeOff /\ tok = TokOff

\* The environment may still produce an event.
EventBudget == nEvents < MaxEvents

\* The process is running: not killed by a signal and main has not exited.
Alive == ~killed /\ mainPc # "exited"

\* The flows that are inside conn.Write.
InWritePath == {f \in Flows : pending[f] # NoFrame}

\* §4.6 Active: pumps and watcher running, interrupt listener armed, and the
\* inbound pump has not yet closed done.
Active == Alive /\ mainPc = "waitDone" /\ doneCloses = 0

\* The first event that takes the session out of Active is remembered.
FirstTrigger(t) == trigger' = IF trigger = "none" /\ Active THEN t ELSE trigger

(***************************************************************************)
(* conn.Write and sendResize.                                              *)
(***************************************************************************)
\* conn.Write(ctx, ...) succeeds on an open connection under a live context.
WriteOK == conn = "open" /\ ~ctxCancelled

\* A flow enters conn.Write with the frame it marshalled.  Nothing in
\* runExec, sendResize or monitorResize guards the entry.
ConnWriteBegin(flow, frame) ==
    pending' = [pending EXCEPT ![flow] = frame]

\* The flow's conn.Write returns: the frame is on the wire iff it succeeded.
ConnWriteEnd(flow) ==
    /\ wire' = IF WriteOK THEN Append(wire, pending[flow]) ELSE wire
    /\ pending' = [pending EXCEPT ![flow] = NoFrame]

\* sendResize up to its call of conn.Write: the size is queried and the
\* frame marshalled; a failing size query returns without writing.
ResizeFrame == Marshal(wsMessage("resize", "", "", termSize[1], termSize[2]))

(***************************************************************************)
(* runExec, main flow.                                                     *)
(***************************************************************************)
StartOrder ==
    IF impl = "monitor"
    THEN <<"sendResize", "goMonitor", "goInbound", "goOutbound", "notify", "goSig", "waitDone">>
    ELSE <<"sendResize", "notify", "goInbound", "goOutbound", "goSig", "waitDone">>

After(pc) ==
    LET i == CHOOSE j \in 1..Len(StartOrder) : StartOrder[j] = pc
    IN StartOrder[i + 1]

\* Signals runExec registers on sigCh.
RegisteredSignals ==
    IF impl = "monitor" THEN {"SIGINT"} ELSE {"SIGWINCH", "SIGINT", "SIGTERM"}

\* The signals the running version treats as a local interrupt.
InterruptSignals == RegisteredSignals \ {"SIGWINCH"}

Push(d) == defers' = <<d>> \o defers

\* url.Parse(cfg.AuthBaseURL())
ParseURL ==
    /\ Alive /\ mainPc = "parse"
    /\ \E ok \in BOOLEAN :
         IF ok
         THEN /\ mainPc' = "dial"
              /\ Push("cancel")
              /\ UNCHANGED retVal
         ELSE /\ mainPc' = "return"
              /\ retVal' = ErrParseURL
              /\ UNCHANGED defers
    /\ UNCHANGED << exitCode, envVars, termSize, termVars, killed, ctxCancelled, conn,
                    dialVars, wire, pending, pumpVars, resPc, sigPc, sigVars,
                    chanVars, nEvents, closeVars, unitVars >>

\* websocket.Dial: one attempt; resp is the handshake response status, or
\* NoStatus when there was no response.  A cancelled ctx fails the dial.
Dial ==
    /\ Alive /\ mainPc = "dial"
    /\ dialCount' = dialCount + 1
    /\ \E ok \in BOOLEAN, resp \in HTTPStatuses \cup {NoStatus} :
         /\ ctxCancelled => ~ok /\ resp = NoStatus
         /\ ok => resp = NoStatus
         /\ dialResult' = IF ok THEN "ok" ELSE "failed"
         /\ dialResp' = resp
         /\ IF ok
            THEN /\ conn' = "open"
                 /\ Push("CloseNow")
                 /\ mainPc' = "isTerminal"
                 /\ UNCHANGED retVal
            ELSE /\ retVal' = DialError(resp)
                 /\ mainPc' = "return"
                 /\ UNCHANGED << conn, defers >>
    /\ UNCHANGED << exitCode, envVars, termSize, termVars, killed, ctxCancelled,
                    wire, pending, pumpVars, resPc, sigPc, sigVars, chanVars, nEvents, closeVars, unitVars >>

\* term.IsTerminal(fd)
IsTerminal ==
    /\ Alive /\ mainPc = "isTerminal"
    /\ IF stdinTTY
       THEN mainPc' = "makeRaw" /\ UNCHANGED retVal
       ELSE mainPc' = "return" /\ retVal' = ErrNotTerminal
    /\ UNCHANGED << defers, exitCode, envVars, termSize, termVars, killed, ctxCancelled,
                    conn, dialVars, wire, pending, pumpVars, resPc, sigPc, sigVars,
                    chanVars, nEvents, closeVars, unitVars >>

\* A MakeRaw whose failure left the terminal in raw mode with nothing
\* deferred to restore it.
MakeRawFailsDirty ==
    /\ Alive /\ mainPc = "makeRaw"
    /\ \E ok \in BOOLEAN :
         IF ok
         THEN /\ termMode' = "raw"
              /\ rawAcquired' = TRUE
              /\ Push("Restore")
              /\ mainPc' = "sendResize"
              /\ UNCHANGED retVal
         ELSE /\ retVal' = ErrMakeRaw
              /\ mainPc' = "return"
              /\ termMode' = "raw"
              /\ UNCHANGED << rawAcquired, defers >>
    /\ UNCHANGED << restoreCount, exitCode, envVars, termSize, killed, ctxCancelled,
                    conn, dialVars, wire, pending, pumpVars, resPc, sigPc, sigVars,
                    chanVars, nEvents, closeVars, unitVars >>

\* oldState, err := term.MakeRaw(fd); defer term.Restore(fd, oldState)
MakeRaw ==
    /\ Alive /\ mainPc = "makeRaw"
    /\ \E ok \in BOOLEAN :
         IF ok
         THEN /\ termMode' = "raw"
              /\ rawAcquired' = TRUE
              /\ Push("Restore")
              /\ mainPc' = "sendResize"
              /\ UNCHANGED retVal
         ELSE /\ retVal' = ErrMakeRaw
              /\ mainPc' = "return"
              /\ UNCHANGED << termMode, rawAcquired, defers >>
    /\ UNCHANGED << restoreCount, exitCode, envVars, termSize, killed, ctxCancelled,
                    conn, dialVars, wire, pending, pumpVars, resPc, sigPc, sigVars,
                    chanVars, nEvents, closeVars, unitVars >>

\* sendResize(ctx, conn) called by runExec before anything else is started.
InitialResize ==
    /\ Alive /\ mainPc = "sendResize"
    /\ IF stdoutTTY
       THEN /\ ConnWriteBegin("main", ResizeFrame)
            /\ mainPc' = "sendResizeWrite"
       ELSE /\ mainPc' = After("sendResize")
            /\ UNCHANGED pending
    /\ UNCHANGED << defers, retVal, exitCode, envVars, termSize, termVars, killed,
                    ctxCancelled, conn, dialVars, wire, pumpVars, resPc, sigPc,
                    sigVars, chanVars, nEvents, closeVars, unitVars >>

InitialResizeWritten ==
    /\ Alive /\ mainPc = "sendResizeWrite"
    /\ ConnWriteEnd("main")
    /\ mainPc' = After("sendResize")
    /\ UNCHANGED << defers, retVal, exitCode, envVars, termSize, termVars, killed,
                    ctxCancelled, conn, dialVars, pumpVars, resPc, sigPc, sigVars,
                    chanVars, nEvents, closeVars, unitVars >>

\* resizeStop := make(chan struct{}); go monitorResize(ctx, conn, resizeStop)
GoMonitor ==
    /\ Alive /\ mainPc = "goMonitor"
    /\ resPc' = "start"
    /\ mainPc' = After("goMonitor")
    /\ UNCHANGED << defers, retVal, exitCode, envVars, termSize, termVars, killed,
                    ctxCancelled, conn, dialVars, wire, pending, pumpVars, sigPc,
                    sigVars, chanVars, nEvents, closeVars, unitVars >>

\* done := make(chan struct{}); go func() { defer close(done); ... }()
GoInbound ==
    /\ Alive /\ mainPc = "goInbound"
    /\ inbPc' = "read"
    /\ mainPc' = After("goInbound")
    /\ UNCHANGED << defers, retVal, exitCode, envVars, termSize, termVars, killed,
                    ctxCancelled, conn, dialVars, wire, pending, rdMsg, outPc,
                    received, stdout, stderr, outFailed, endCause, resPc,
                    sigPc, sigVars, chanVars, nEvents, closeVars, unitVars >>

GoOutbound ==
    /\ Alive /\ mainPc = "goOutbound"
    /\ outPc' = "read"
    /\ mainPc' = After("goOutbound")
    /\ UNCHANGED << defers, retVal, exitCode, envVars, termSize, termVars, killed,
                    ctxCancelled, conn, dialVars, wire, pending, inbPc, rdMsg,
                    received, stdout, stderr, outFailed, endCause, resPc,
                    sigPc, sigVars, chanVars, nEvents, closeVars, unitVars >>

\* sigCh := make(chan os.Signal, 1); signal.Notify(sigCh, ...); defer signal.Stop(sigCh)
Notify ==
    /\ Alive /\ mainPc = "notify"
    /\ notified' = RegisteredSignals
    /\ Push("signal.Stop")
    /\ mainPc' = After("notify")
    /\ UNCHANGED << retVal, exitCode, envVars, termSize, termVars, killed, ctxCancelled,
                    conn, dialVars, wire, pending, pumpVars, resPc, sigPc, sigCh,
                    winchCh, winchNotified, intrActive, chanVars, nEvents, closeVars, unitVars >>

\* go func() { select/range over sigCh ... }()
GoSig ==
    /\ Alive /\ mainPc = "goSig"
    /\ sigPc' = "recv"
    /\ mainPc' = After("goSig")
    /\ UNCHANGED << defers, retVal, exitCode, envVars, termSize, termVars, killed,
                    ctxCancelled, conn, dialVars, wire, pending, pumpVars, resPc,
                    sigVars, chanVars, nEvents, closeVars, unitVars >>

\* A runExec that returned without waiting for done to be closed.
WaitDoneSkipped ==
    /\ Alive /\ mainPc = "waitDone"
    /\ retVal' = Nil
    /\ mainPc' = "return"
    /\ UNCHANGED << defers, exitCode, envVars, termSize, termVars, killed, ctxCancelled,
                    conn, dialVars, wire, pending, pumpVars, resPc, sigPc, sigVars,
                    chanVars, nEvents, closeVars, unitVars >>

\* <-done; return nil
WaitDone ==
    /\ Alive /\ mainPc = "waitDone"
    /\ doneCloses > 0
    /\ retVal' = Nil
    /\ mainPc' = "return"
    /\ UNCHANGED << defers, exitCode, envVars, termSize, termVars, killed, ctxCancelled,
                    conn, dialVars, wire, pending, pumpVars, resPc, sigPc, sigVars,
                    chanVars, nEvents, closeVars, unitVars >>

\* term.Restore run twice by the deferred call.
RestoreTwice == /\ termMode' = "cooked"
                /\ restoreCount' = restoreCount + 2

\* The deferred func() { _ = term.Restore(fd, oldState) }.
Restore == /\ termMode' = "cooked"
           /\ restoreCount' = restoreCount + 1

\* A return statement runs the deferred calls, last deferred first.
RunDeferred ==
    /\ Alive /\ mainPc = "return" /\ defers # << >>
    /\ defers' = Tail(defers)
    /\ LET d == Head(defers) IN
         /\ IF d = "Restore" THEN Restore ELSE UNCHANGED << termMode, restoreCount >>
         /\ conn' = IF d = "CloseNow" THEN "closed" ELSE conn
         /\ ctxCancelled' = IF d = "cancel" THEN TRUE ELSE ctxCancelled
         /\ notified' = IF d = "signal.Stop" THEN {} ELSE notified
    /\ UNCHANGED << mainPc, retVal, exitCode, envVars, termSize, rawAcquired, killed,
                    dialVars, wire, pending, pumpVars, resPc, sigPc, sigCh, winchCh,
                    winchNotified, intrActive, chanVars, nEvents, closeVars, unitVars >>

\* runExec has returned to its caller.
Return ==
    /\ Alive /\ mainPc = "return" /\ defers = << >>
    /\ mainPc' = "returned"
    /\ UNCHANGED << defers, retVal, exitCode, envVars, termSize, termVars, killed,
                    ctxCancelled, conn, dialVars, wire, pending, pumpVars, resPc,
                    sigPc, sigVars, chanVars, nEvents, closeVars, unitVars >>

\* A main that leaves with status 0 whatever Execute returned.
ExitStatusAlwaysZero(err) == 0

\* main.go:30-33: os.Exit(1) on an error, otherwise main returns (status 0).
ExitStatus(err) == IF err = Nil THEN 0 ELSE 1

\* main.go:31: fmt.Fprintf(os.Stderr, "Error: %s\n", err)
ErrorLine(err, e) == Append(err, e.kind)

\* main: a non-nil error prints one line and exits 1, otherwise exit 0.
Exit ==
    /\ Alive /\ mainPc = "returned"
    /\ mainPc' = "exited"
    /\ exitCode' = ExitStatus(retVal)
    /\ stderr' = IF retVal = Nil THEN stderr ELSE ErrorLine(stderr, retVal)
    /\ UNCHANGED << defers, retVal, envVars, termSize, termVars, killed, ctxCancelled,
                    conn, dialVars, wire, pending, inbPc, rdMsg, outPc, received,
                    stdout, outFailed, endCause, resPc, sigPc, sigVars,
                    chanVars, nEvents, closeVars, unitVars >>


(***************************************************************************)
(* Inbound pump: conn.Read -> os.Stdout / os.Stderr.                       *)
(***************************************************************************)
\* conn.Read(ctx) fails once the connection is gone or ctx is cancelled.
ReadFails == conn # "open" \/ ctxCancelled

\* Why a failing read ends the session: a local closure (interrupt) or the
\* loss of the connection.
ReadErrorCause == IF ctxCancelled \/ conn = "closed" THEN "LocalInterrupt" ELSE "IOError"

\* os.Stdout.Write that puts the new data in front of what was written.
StdoutWritePrepends(out, data) == <<data>> \o out

\* os.Stdout.Write([]byte(msg.Data))
StdoutWrite(out, data) == Append(out, data)

\* fmt.Fprintf(os.Stderr, "\r\nError: %s\r\n", msg.Message)
StderrNotice(err, message) == Append(err, message)

\* The inbound goroutine returns; its deferred close(done) runs twice.
InboundReturnClosesTwice(cause) ==
    /\ inbPc' = "done"
    /\ doneCloses' = doneCloses + 2
    /\ endCause' = cause

\* The inbound goroutine returns; its deferred close(done) runs.
InboundReturn(cause) ==
    /\ inbPc' = "done"
    /\ doneCloses' = doneCloses + 1
    /\ endCause' = cause

\* conn.Read returns a message sent by the remote.
InboundReadFrame ==
    /\ Alive /\ inbPc = "read"
    /\ ~ReadFails
    /\ EventBudget
    /\ \E m \in RemoteMsgs :
         /\ rdMsg' = m
         /\ received' = Append(received, m)
    /\ nEvents' = nEvents + 1
    /\ inbPc' = "dispatch"
    /\ UNCHANGED << mainVars, envVars, termSize, termVars, killed, ctxCancelled, conn,
                    dialVars, wire, pending, outPc, stdout, stderr, outFailed,
                    endCause, resPc, sigPc, sigVars, chanVars, closeVars, unitVars >>

\* conn.Read returns an error: the goroutine returns.
InboundReadError ==
    /\ Alive /\ inbPc = "read"
    /\ ReadFails
    /\ InboundReturn(ReadErrorCause)
    /\ UNCHANGED << mainVars, envVars, termSize, termVars, killed, ctxCancelled, conn,
                    dialVars, wire, pending, rdMsg, outPc, received, stdout, stderr,
                    outFailed, resPc, sigPc, sigVars, resizeStopCloses, nEvents, closeVars, unitVars >>

\* A switch whose "close" case only leaves the switch, not the loop.
FrameActionCloseBreaks(m) ==
    IF ~m.ok THEN "continue"
    ELSE LET msg == Unmarshal(m.obj) IN
         CASE msg.Type = "output" -> "output"
           [] msg.Type = "error"  -> "error"
           [] OTHER               -> "continue"

\* A switch whose "error" case returns after printing the notice.
FrameActionErrorReturns(m) ==
    IF ~m.ok THEN "continue"
    ELSE LET msg == Unmarshal(m.obj) IN
         CASE msg.Type = "output" -> "output"
           [] msg.Type = "error"  -> "return"
           [] msg.Type = "close"  -> "return"
           [] OTHER               -> "continue"

\* A loop body that returns when json.Unmarshal fails or the type is unknown.
FrameActionDropReturns(m) ==
    IF ~m.ok THEN "return"
    ELSE LET msg == Unmarshal(m.obj) IN
         CASE msg.Type = "output" -> "output"
           [] msg.Type = "error"  -> "error"
           [] msg.Type = "close"  -> "return"
           [] OTHER               -> "return"

\* What the loop body does with a message: json.Unmarshal failing continues
\* the loop, then the switch on msg.Type; "close" returns.
FrameAction(m) ==
    IF ~m.ok THEN "continue"
    ELSE LET msg == Unmarshal(m.obj) IN
         CASE msg.Type = "output" -> "output"
           [] msg.Type = "error"  -> "error"
           [] msg.Type = "close"  -> "return"
           [] OTHER               -> "continue"

\* One pass of the loop body on the message conn.Read returned.
InboundDispatch ==
    /\ Alive /\ inbPc = "dispatch"
    /\ rdMsg' = NoMsg
    /\ LET msg == Unmarshal(rdMsg.obj)
           act == FrameAction(rdMsg)
       IN
         /\ stdout' = IF act = "output" THEN StdoutWrite(stdout, msg.Data) ELSE stdout
         /\ stderr' = IF act = "error" THEN StderrNotice(stderr, msg.Message) ELSE stderr
         /\ IF act = "return"
            THEN InboundReturn("RemoteClosed") /\ FirstTrigger("remote")
            ELSE inbPc' = "read" /\ UNCHANGED << doneCloses, endCause, trigger >>
    /\ UNCHANGED << mainVars, envVars, termSize, termVars, killed, ctxCancelled, conn,
                    dialVars, wire, pending, outPc, received, outFailed,
                    resPc, sigPc, sigVars, resizeStopCloses, nEvents, closeCalls, unitVars >>

(***************************************************************************)
(* Outbound pump: os.Stdin.Read -> conn.Write.                             *)
(***************************************************************************)
\* os.Stdin.Read returns n > 0 bytes: marshal an input frame, call conn.Write.
OutboundReadChunk ==
    /\ Alive /\ outPc = "read"
    /\ EventBudget
    /\ \E c \in Chunks : ConnWriteBegin("outbound", Marshal(wsMessage("input", c, "", 0, 0)))
    /\ nEvents' = nEvents + 1
    /\ outPc' = "write"
    /\ UNCHANGED << mainVars, envVars, termSize, termVars, killed, ctxCancelled, conn,
                    dialVars, wire, inbPc, rdMsg, received, stdout, stderr, outFailed,
                    endCause, resPc, sigPc, sigVars, chanVars, closeVars, unitVars >>

\* An outbound goroutine that closes the connection when it returns.
OutboundExitClosesConn ==
    /\ outPc' = "done"
    /\ outFailed' = TRUE
    /\ conn' = IF conn = "open" THEN "closed" ELSE conn

\* clusters.go:583 and 587: the outbound goroutine returns; it has no
\* deferred call and touches nothing on the way out.
OutboundExit ==
    /\ outPc' = "done"
    /\ outFailed' = TRUE
    /\ UNCHANGED conn

\* os.Stdin.Read returns an error, EOF or n = 0: the goroutine returns.
OutboundReadEOF ==
    /\ Alive /\ outPc = "read"
    /\ OutboundExit
    /\ FirstTrigger("localio")
    /\ UNCHANGED << mainVars, envVars, termSize, termVars, killed, ctxCancelled,
                    dialVars, wire, pending, inbPc, rdMsg, received, stdout, stderr,
                    endCause, resPc, sigPc, sigVars, chanVars, nEvents, closeCalls, unitVars >>

\* conn.Write of the input frame returns; an error ends the goroutine.
OutboundWritten ==
    /\ Alive /\ outPc = "write"
    /\ ConnWriteEnd("outbound")
    /\ IF WriteOK
       THEN outPc' = "read" /\ UNCHANGED << outFailed, conn, trigger >>
       ELSE OutboundExit /\ FirstTrigger("localio")
    /\ UNCHANGED << mainVars, envVars, termSize, termVars, killed, ctxCancelled,
                    dialVars, inbPc, rdMsg, received, stdout, stderr,
                    endCause, resPc, sigPc, sigVars, chanVars, nEvents, closeCalls, unitVars >>

(***************************************************************************)
(* monitorResize, signal-driven (unnamed/part_006).                        *)
(***************************************************************************)
\* sigCh := make(chan os.Signal, 1); signal.Notify(sigCh, syscall.SIGWINCH)
MonitorStart ==
    /\ Alive /\ resPc = "start"
    /\ winchNotified' = TRUE
    /\ resPc' = "select"
    /\ UNCHANGED << mainVars, envVars, termSize, termVars, killed, ctxCancelled, conn,
                    dialVars, wire, pending, pumpVars, sigPc, sigCh, notified, winchCh,
                    intrActive, chanVars, nEvents, closeVars, unitVars >>

\* A watcher that compared the size with the one it sent last, which
\* monitorResize on a signal does not do.
MonitorWinchDeduplicates ==
    /\ Alive /\ resPc = "select"
    /\ winchCh # << >>
    /\ winchCh' = << >>
    /\ IF stdoutTTY /\ (wire = << >> \/ wire[Len(wire)] # ResizeFrame)
       THEN ConnWriteBegin("monitor", ResizeFrame) /\ resPc' = "write"
       ELSE UNCHANGED << pending, resPc >>
    /\ UNCHANGED << mainVars, envVars, termSize, termVars, killed, ctxCancelled, conn,
                    dialVars, wire, pumpVars, sigPc, sigCh, notified, winchNotified,
                    intrActive, chanVars, nEvents, closeVars, unitVars >>

\* case <-sigCh: sendResize(ctx, conn)
MonitorWinch ==
    /\ Alive /\ resPc = "select"
    /\ winchCh # << >>
    /\ winchCh' = << >>
    /\ IF stdoutTTY
       THEN ConnWriteBegin("monitor", ResizeFrame) /\ resPc' = "write"
       ELSE UNCHANGED << pending, resPc >>
    /\ UNCHANGED << mainVars, envVars, termSize, termVars, killed, ctxCancelled, conn,
                    dialVars, wire, pumpVars, sigPc, sigCh, notified, winchNotified,
                    intrActive, chanVars, nEvents, closeVars, unitVars >>

MonitorWritten ==
    /\ Alive /\ resPc = "write"
    /\ ConnWriteEnd("monitor")
    /\ resPc' = "select"
    /\ UNCHANGED << mainVars, envVars, termSize, termVars, killed, ctxCancelled, conn,
                    dialVars, pumpVars, sigPc, sigVars, chanVars, nEvents, closeVars, unitVars >>

\* case <-stop: return (and the deferred signal.Stop)
MonitorStop ==
    /\ Alive /\ resPc = "select"
    /\ resizeStopCloses > 0
    /\ resPc' = "done"
    /\ winchNotified' = FALSE
    /\ UNCHANGED << mainVars, envVars, termSize, termVars, killed, ctxCancelled, conn,
                    dialVars, wire, pending, pumpVars, sigPc, sigCh, notified, winchCh,
                    intrActive, chanVars, nEvents, closeVars, unitVars >>

(***************************************************************************)
(* The goroutine on sigCh.                                                 *)
(***************************************************************************)
\* conn.Close(websocket.StatusNormalClosure, "")
ConnClose ==
    /\ conn' = IF conn = "open" THEN "closed" ELSE conn
    /\ closeCalls' = closeCalls + 1

\* clusters.go:598-600, case <-sigCh: close the connection.
InterruptSelectSignal ==
    /\ Alive /\ impl = "monitor" /\ sigPc = "recv"
    /\ sigCh # << >>
    /\ sigCh' = << >>
    /\ ConnClose
    /\ sigPc' = "closeStop"
    /\ UNCHANGED << mainVars, envVars, termSize, termVars, killed, ctxCancelled,
                    dialVars, wire, pending, pumpVars, resPc, notified, winchCh,
                    winchNotified, intrActive, chanVars, nEvents, trigger, unitVars >>

\* clusters.go:601, case <-done.
InterruptSelectDone ==
    /\ Alive /\ impl = "monitor" /\ sigPc = "recv"
    /\ doneCloses > 0
    /\ sigPc' = "closeStop"
    /\ UNCHANGED << mainVars, envVars, termSize, termVars, killed, ctxCancelled, conn,
                    dialVars, wire, pending, pumpVars, resPc, sigVars, chanVars, nEvents, closeVars, unitVars >>

\* clusters.go:603, close(resizeStop), and the goroutine ends.
InterruptCloseStop ==
    /\ Alive /\ impl = "monitor" /\ sigPc = "closeStop"
    /\ resizeStopCloses' = resizeStopCloses + 1
    /\ sigPc' = "done"
    /\ UNCHANGED << mainVars, envVars, termSize, termVars, killed, ctxCancelled, conn,
                    dialVars, wire, pending, pumpVars, resPc, sigVars, doneCloses, nEvents, closeVars, unitVars >>

\* part_008:856-864, for sig := range sigCh { switch sig ... }
SigLoopRecv ==
    /\ Alive /\ impl = "sigloop" /\ sigPc = "recv"
    /\ sigCh # << >>
    /\ sigCh' = << >>
    /\ IF Head(sigCh) = "SIGWINCH"
       THEN /\ IF stdoutTTY
               THEN ConnWriteBegin("sig", ResizeFrame) /\ sigPc' = "write"
               ELSE UNCHANGED << pending, sigPc >>
            /\ UNCHANGED << conn, closeCalls >>
       ELSE /\ ConnClose
            /\ sigPc' = "done"
            /\ UNCHANGED pending
    /\ UNCHANGED << mainVars, envVars, termSize, termVars, killed, ctxCancelled,
                    dialVars, wire, pumpVars, resPc, notified, winchCh, winchNotified,
                    intrActive, chanVars, nEvents, trigger, unitVars >>

SigLoopWritten ==
    /\ Alive /\ impl = "sigloop" /\ sigPc = "write"
    /\ ConnWriteEnd("sig")
    /\ sigPc' = "recv"
    /\ UNCHANGED << mainVars, envVars, termSize, termVars, killed, ctxCancelled, conn,
                    dialVars, pumpVars, resPc, sigVars, chanVars, nEvents, closeVars, unitVars >>

(***************************************************************************)
(* Environment: signals, terminal size changes, the remote end.            *)
(***************************************************************************)
\* os/signal delivery to a channel never blocks: a signal that finds the
\* channel full is dropped.
Deliver(ch, sig) == IF Len(ch) < 1 THEN Append(ch, sig) ELSE ch

\* SIGINT: main's signal.NotifyContext cancels the context runExec derives
\* ctx from; if runExec registered SIGINT the signal also goes to sigCh.
SIGINT ==
    /\ Alive /\ EventBudget
    /\ nEvents' = nEvents + 1
    /\ ctxCancelled' = TRUE
    /\ sigCh' = IF "SIGINT" \in notified THEN Deliver(sigCh, "SIGINT") ELSE sigCh
    /\ intrActive' = (intrActive \/ Active)
    /\ FirstTrigger("interrupt")
    /\ UNCHANGED << mainVars, envVars, termSize, termVars, killed, conn, dialVars, wire,
                    pending, pumpVars, resPc, sigPc, notified, winchCh, winchNotified,
                    chanVars, closeCalls, unitVars >>

\* SIGTERM: delivered to sigCh while registered there, otherwise the default
\* action ends the process at once (no deferred call runs).
SIGTERM ==
    /\ Alive /\ EventBudget
    /\ nEvents' = nEvents + 1
    /\ IF "SIGTERM" \in notified
       THEN /\ sigCh' = Deliver(sigCh, "SIGTERM")
            /\ intrActive' = (intrActive \/ Active)
            /\ FirstTrigger("interrupt")
            /\ UNCHANGED killed
       ELSE /\ killed' = TRUE
            /\ UNCHANGED << sigCh, intrActive, trigger >>
    /\ UNCHANGED << mainVars, envVars, termSize, termVars, ctxCancelled, conn, dialVars,
                    wire, pending, pumpVars, resPc, sigPc, notified, winchCh,
                    winchNotified, chanVars, closeCalls, unitVars >>

\* The user resizes the terminal: SIGWINCH goes to every channel that
\* registered it and is ignored otherwise.
WindowChange ==
    /\ Alive /\ EventBudget
    /\ nEvents' = nEvents + 1
    /\ \E sz \in Sizes \ {termSize} : termSize' = sz
    /\ winchCh' = IF winchNotified THEN Deliver(winchCh, "SIGWINCH") ELSE winchCh
    /\ sigCh' = IF "SIGWINCH" \in notified THEN Deliver(sigCh, "SIGWINCH") ELSE sigCh
    /\ UNCHANGED << mainVars, envVars, termVars, killed, ctxCancelled, conn, dialVars,
                    wire, pending, pumpVars, resPc, sigPc, notified, winchNotified,
                    intrActive, chanVars, closeVars, unitVars >>

\* The remote end or the network drops the connection.
RemoteDisconnect ==
    /\ Alive /\ conn = "open"
    /\ conn' = "lost"
    /\ FirstTrigger("remote")
    /\ UNCHANGED << mainVars, envVars, termSize, termVars, killed, ctxCancelled,
                    dialVars, wire, pending, pumpVars, resPc, sigPc, sigVars,
                    chanVars, nEvents, closeCalls, unitVars >>

(***************************************************************************)
(* Specifications.                                                         *)
(***************************************************************************)
MainStep ==
    \/ ParseURL \/ Dial \/ IsTerminal \/ MakeRaw \/ InitialResize
    \/ InitialResizeWritten \/ GoMonitor \/ GoInbound \/ GoOutbound \/ Notify
    \/ GoSig \/ WaitDone \/ RunDeferred \/ Return \/ Exit

GoroutineStep ==
    \/ InboundReadError \/ InboundDispatch \/ OutboundWritten
    \/ MonitorStart \/ MonitorWinch \/ MonitorWritten \/ MonitorStop
    \/ InterruptSelectSignal \/ InterruptSelectDone \/ InterruptCloseStop
    \/ SigLoopRecv \/ SigLoopWritten

EnvStep ==
    \/ InboundReadFrame \/ OutboundReadChunk \/ OutboundReadEOF
    \/ SIGINT \/ SIGTERM \/ WindowChange \/ RemoteDisconnect

Next == MainStep \/ GoroutineStep \/ EnvStep

Spec == Init /\ [][Next]_vars

\* The Go scheduler runs every runnable goroutine; what the environment
\* does (signals, remote messages, typing) is not forced.
FairSpec == Spec /\ WF_vars(MainStep) /\ WF_vars(GoroutineStep)

\* runExec without the end of the process: every step of the main flow but
\* main's exit.
RunExecStep ==
    \/ ParseURL \/ Dial \/ IsTerminal \/ MakeRaw \/ InitialResize
    \/ InitialResizeWritten \/ GoMonitor \/ GoInbound \/ GoOutbound \/ Notify
    \/ GoSig \/ WaitDone \/ RunDeferred \/ Return

\* As FairSpec, but the process may stay alive after runExec has returned
\* (runExec waits for none of its goroutines, and nothing forces its caller
\* to exit): the goroutines get all the time they need.
LingerSpec == Spec /\ WF_vars(RunExecStep) /\ WF_vars(GoroutineStep)


(***************************************************************************)
(* The frame codec: json.Marshal / json.Unmarshal of wsMessage with the    *)
(* strings taken at the level of bytes.  A Go string is any sequence of    *)
(* bytes; the JSON text of a string is a sequence of tokens, each a raw    *)
(* byte or a \u escape of a code point.                                    *)
(***************************************************************************)
\* Bytes a chunk may hold: 'a', '<', the two bytes of U+00E9, and 0xFF.
CodecBytes == {97, 60, 195, 169, 255}

ByteStrings == UNION {[1..n -> CodecBytes] : n \in 0..MaxChunk}

Raw(b) == [esc |-> FALSE, v |-> b]
Esc(cp) == [esc |-> TRUE, v |-> cp]

\* utf8.RuneError, what an invalid byte is replaced by.
RuneError == 65533

Cont(b) == b >= 128 /\ b <= 191

\* Length of the valid UTF-8 encoding at the head of s, 0 if the head byte
\* starts none (utf8.DecodeRuneInString returning RuneError, 1).
RuneLen(s) ==
    LET b == s[1] n == Len(s) IN
    IF b < 128 THEN 1
    ELSE IF b >= 194 /\ b <= 223 /\ n >= 2 /\ Cont(s[2]) THEN 2
    ELSE IF /\ b >= 224 /\ b <= 239 /\ n >= 3 /\ Cont(s[2]) /\ Cont(s[3])
            /\ (b = 224 => s[2] >= 160) /\ (b = 237 => s[2] <= 159) THEN 3
    ELSE IF /\ b >= 240 /\ b <= 244 /\ n >= 4 /\ Cont(s[2]) /\ Cont(s[3]) /\ Cont(s[4])
            /\ (b = 240 => s[2] >= 144) /\ (b = 244 => s[2] <= 143) THEN 4
    ELSE 0

\* encoding/json escapes control characters, the quote, the backslash and
\* (HTML escaping is on in json.Marshal) '<', '>' and '&'.
Escaped(b) == b < 32 \/ b \in {34, 92, 60, 62, 38}

\* The JSON text json.Marshal writes for a string value.
RECURSIVE EncodeString(_)
EncodeString(s) ==
    IF s = << >> THEN << >>
    ELSE LET n == RuneLen(s) IN
         IF n = 0 THEN <<Esc(RuneError)>> \o EncodeString(Tail(s))
         ELSE IF n = 1 /\ Escaped(s[1]) THEN <<Esc(s[1])>> \o EncodeString(Tail(s))
         ELSE [i \in 1..n |-> Raw(s[i])] \o EncodeString(SubSeq(s, n + 1, Len(s)))

\* The UTF-8 encoding of a code point of the basic plane.
UTF8(cp) ==
    IF cp < 128 THEN <<cp>>
    ELSE IF cp < 2048 THEN <<192 + (cp \div 64), 128 + (cp % 64)>>
    ELSE <<224 + (cp \div 4096), 128 + ((cp \div 64) % 64), 128 + (cp % 64)>>

\* The string json.Unmarshal reads from the JSON text of a string.
RECURSIVE DecodeString(_)
DecodeString(ts) ==
    IF ts = << >> THEN << >>
    ELSE (IF Head(ts).esc THEN UTF8(Head(ts).v) ELSE <<Head(ts).v>>)
             \o DecodeString(Tail(ts))

\* json.Marshal(wsMessage{...}) with Data and Message as byte strings.
Encode(msg) ==
    ("type" :> msg.Type)
        @@ OmitEmpty("data", EncodeString(msg.Data), << >>)
        @@ OmitEmpty("message", EncodeString(msg.Message), << >>)
        @@ OmitEmpty("cols", msg.Cols, 0)
        @@ OmitEmpty("rows", msg.Rows, 0)

\* json.Unmarshal(data, &msg) of such a text.
Decode(obj) ==
    wsMessage(Field(obj, "type", ""), DecodeString(Field(obj, "data", << >>)),
              DecodeString(Field(obj, "message", << >>)),
              Field(obj, "cols", 0), Field(obj, "rows", 0))

\* The frames of the protocol as wsMessage values: Input with a chunk of
\* n > 0 bytes read from stdin, Output, Resize, Error, Close.
Dims == {0, 80, 100}

CodecFrames ==
    {wsMessage("input", d, << >>, 0, 0) : d \in ByteStrings \ {<< >>}}
        \cup {wsMessage("output", d, << >>, 0, 0) : d \in ByteStrings}
        \cup {wsMessage("resize", << >>, << >>, c, r) : c \in Dims, r \in Dims}
        \cup {wsMessage("error", << >>, m, 0, 0) : m \in ByteStrings}
        \cup {wsMessage("close", << >>, << >>, 0, 0)}

CodecInit ==
    /\ SessionIdle
    /\ codec \in {[pc |-> "frame", frame |-> f, text |-> EmptyObj, back |-> f] :
                     f \in CodecFrames}
    /\ poll = PollOff /\ cmd = CmdOff /\ ver = VerOff /\ upd = UpdOff /\ exe = ExeOff /\ tok = TokOff

\* The sender marshals the frame.
CodecEncode ==
    /\ codec.pc = "frame"
    /\ codec' = [codec EXCEPT !.pc = "text", !.text = Encode(codec.frame)]
    /\ UNCHANGED << sessionVars, poll, cmd, ver, upd, exe, tok >>

\* The receiver unmarshals the text.
CodecDecode ==
    /\ codec.pc = "text"
    /\ codec' = [codec EXCEPT !.pc = "back", !.back = Decode(codec.text)]
    /\ UNCHANGED << sessionVars, poll, cmd, ver, upd, exe, tok >>

CodecNext == CodecEncode \/ CodecDecode

CodecSpec == CodecInit /\ [][CodecNext]_vars

(***************************************************************************)
(* monitorResize, polling (internal/cmd/installs/exec_windows.go:33).      *)
(* The terminal answers a size query with a size or with an error; the     *)
(* watcher queries once when it starts and once at every tick.             *)
(***************************************************************************)
PollSizes == {<<80, 24>>, <<100, 30>>, <<80, 30>>}

\* What term.GetSize(fd) returns.
GetSizeAnswers ==
    {[ok |-> TRUE, w |-> sz[1], h |-> sz[2]] : sz \in PollSizes}
        \cup {[ok |-> FALSE, w |-> 0, h |-> 0]}

\* A comparison that looks at the width only.
SizeChangedWidthOnly(newW, newH, w, h) == newW # w

\* exec_windows.go:50
SizeChanged(newW, newH, w, h) == newW # w \/ newH # h

\* sendResize called in the tick's handler: it queries the terminal again,
\* in the same step, and hands the marshalled frame to conn.Write.
PollSendResize(frames, answer) ==
    IF answer.ok
    THEN Append(frames, Marshal(wsMessage("resize", "", "", answer.w, answer.h)))
    ELSE frames

PollInit ==
    /\ SessionIdle
    /\ poll \in {[pc |-> "start", term |-> a, w |-> 0, h |-> 0,
                   obs |-> << >>, frames |-> << >>] : a \in GetSizeAnswers}
    /\ codec = CodecOff /\ cmd = CmdOff /\ ver = VerOff /\ upd = UpdOff /\ exe = ExeOff /\ tok = TokOff

\* exec_windows.go:34-38: the first query; an error ends the watcher.
PollStart ==
    /\ poll.pc = "start"
    /\ poll' = [poll EXCEPT !.obs = Append(@, poll.term),
                            !.pc = IF poll.term.ok THEN "loop" ELSE "done",
                            !.w = poll.term.w, !.h = poll.term.h]
    /\ UNCHANGED << sessionVars, codec, cmd, ver, upd, exe, tok >>

\* exec_windows.go:45-53: one tick of the ticker.
PollTick ==
    /\ poll.pc = "loop"
    /\ Len(poll.obs) < MaxObs
    /\ LET new == poll.term IN
         IF new.ok /\ SizeChanged(new.w, new.h, poll.w, poll.h)
         THEN poll' = [poll EXCEPT !.obs = Append(@, new), !.w = new.w, !.h = new.h,
                                   !.frames = PollSendResize(@, poll.term)]
         ELSE poll' = [poll EXCEPT !.obs = Append(@, new)]
    /\ UNCHANGED << sessionVars, codec, cmd, ver, upd, exe, tok >>

\* exec_windows.go:54-55: case <-stop.
PollStop ==
    /\ poll.pc = "loop"
    /\ poll' = [poll EXCEPT !.pc = "done"]
    /\ UNCHANGED << sessionVars, codec, cmd, ver, upd, exe, tok >>

\* The user resizes the window, or the terminal stops or starts answering.
PollTermChange ==
    /\ poll.pc \in {"start", "loop"}
    /\ \E a \in GetSizeAnswers \ {poll.term} : poll' = [poll EXCEPT !.term = a]
    /\ UNCHANGED << sessionVars, codec, cmd, ver, upd, exe, tok >>

PollNext == PollStart \/ PollTick \/ PollStop \/ PollTermChange

PollSpec == PollInit /\ [][PollNext]_vars

(***************************************************************************)
(* The exec command's RunE (clusters.go:414-483): arguments and flags,     *)
(* the interactive pickers, and the call of runExec.                       *)
(***************************************************************************)
InstallIDs == {"i1"}

\* Pods as the REST API lists them: a name and the container names.
Pod(name, containers) == [Name |-> name, Containers |-> containers]

PodLists ==
    { << >>,
      << Pod("p1", <<"c1">>) >>,
      << Pod("p1", <<"c1", "c2">>) >>,
      << Pod("p1", << >>) >>,
      << Pod("p1", <<"c1">>), Pod("p2", <<"c1", "c2">>) >> }

Elems(seq) == {seq[i] : i \in 1..Len(seq)}

\* prompt.Select: the error ErrNonInteractive without a terminal, otherwise
\* one of the options or the error of an aborted prompt.
SelectResults(interactive, options) ==
    IF interactive
    THEN {[err |-> FALSE, value |-> o] : o \in options} \cup {[err |-> TRUE, value |-> ""]}
    ELSE {[err |-> TRUE, value |-> ""]}

\* A check that asks for the pod only.
MissingPodOnly(pod, container) == pod = ""

\* clusters.go:478
MissingPodOrContainer(pod, container) == pod = "" \/ container = ""

CmdInit ==
    /\ SessionIdle
    /\ cmd \in [pc : {"args"}, args : {<< >>} \cup {<<i>> : i \in InstallIDs},
                 podFlag : {"", "p1"}, containerFlag : {"", "c1"},
                 interactive : BOOLEAN,
                 installID : {""}, pod : {""}, container : {""},
                 requests : {0}, runExec : {"no"}, err : {""}]
    /\ codec = CodecOff /\ poll = PollOff /\ ver = VerOff /\ upd = UpdOff /\ exe = ExeOff /\ tok = TokOff

CmdFail(e) == cmd' = [cmd EXCEPT !.pc = "failed", !.err = e]

\* clusters.go:415-417; cobra has stored the flags in pod and container.
CmdCheckArgs ==
    /\ cmd.pc = "args"
    /\ IF Len(cmd.args) = 0 /\ ~cmd.interactive
       THEN CmdFail("<install-id> argument required when not running interactively")
       ELSE cmd' = [cmd EXCEPT !.pc = "client", !.pod = cmd.podFlag,
                                !.container = cmd.containerFlag]
    /\ UNCHANGED << sessionVars, codec, poll, ver, upd, exe, tok >>

\* clusters.go:419-422: cmdutil.NewClient reads the configuration.
CmdNewClient ==
    /\ cmd.pc = "client"
    /\ \E ok \in BOOLEAN :
         IF ok THEN cmd' = [cmd EXCEPT !.pc = "install"] ELSE CmdFail("not authenticated")
    /\ UNCHANGED << sessionVars, codec, poll, ver, upd, exe, tok >>

\* clusters.go:426-433: the argument, or pickInstall (one REST request and
\* a prompt).
CmdInstall ==
    /\ cmd.pc = "install"
    /\ IF Len(cmd.args) > 0
       THEN cmd' = [cmd EXCEPT !.pc = "pods", !.installID = cmd.args[1]]
       ELSE \E listed \in {"request failed", "no JSON200", "no installs", "ok"} :
              IF listed # "ok"
              THEN cmd' = [cmd EXCEPT !.pc = "failed", !.err = listed,
                                       !.requests = @ + 1]
              ELSE \E r \in SelectResults(cmd.interactive, InstallIDs) :
                     IF r.err
                     THEN cmd' = [cmd EXCEPT !.pc = "failed", !.err = "prompt",
                                              !.requests = @ + 1]
                     ELSE cmd' = [cmd EXCEPT !.pc = "pods", !.installID = r.value,
                                              !.requests = @ + 1]
    /\ UNCHANGED << sessionVars, codec, poll, ver, upd, exe, tok >>

\* clusters.go:459-470: the container of the chosen pod.
PickContainer(interactive, p) ==
    IF Len(p.Containers) > 1
    THEN SelectResults(interactive, Elems(p.Containers))
    ELSE IF Len(p.Containers) = 1
         THEN {[err |-> FALSE, value |-> p.Containers[1]]}
         ELSE {[err |-> FALSE, value |-> ""]}

\* clusters.go:436-476: the pod picker, only without --pod on a terminal.
CmdPickPod ==
    /\ cmd.pc = "pods"
    /\ IF cmd.pod = "" /\ cmd.interactive
       THEN \/ cmd' = [cmd EXCEPT !.pc = "failed", !.err = "fetching pods",
                                  !.requests = @ + 1]
            \/ \E data \in PodLists :      \* << >>: no JSON200 or no pods
                 IF data = << >>
                 THEN cmd' = [cmd EXCEPT !.pc = "require", !.requests = @ + 1]
                 ELSE \E r \in SelectResults(cmd.interactive, {p.Name : p \in Elems(data)}) :
                        IF r.err
                        THEN cmd' = [cmd EXCEPT !.pc = "failed", !.err = "prompt",
                                                 !.requests = @ + 1]
                        ELSE IF cmd.container # ""
                        THEN cmd' = [cmd EXCEPT !.pc = "require", !.pod = r.value,
                                                 !.requests = @ + 1]
                        ELSE LET p == CHOOSE q \in Elems(data) : q.Name = r.value IN
                             \E c \in PickContainer(cmd.interactive, p) :
                               IF c.err
                               THEN cmd' = [cmd EXCEPT !.pc = "failed", !.err = "prompt",
                                                        !.pod = r.value, !.requests = @ + 1]
                               ELSE cmd' = [cmd EXCEPT !.pc = "require", !.pod = r.value,
                                                        !.container = c.value,
                                                        !.requests = @ + 1]
       ELSE cmd' = [cmd EXCEPT !.pc = "require"]
    /\ UNCHANGED << sessionVars, codec, poll, ver, upd, exe, tok >>

\* clusters.go:478-482: the last check, then runExec.
CmdRunExec ==
    /\ cmd.pc = "require"
    /\ IF MissingPodOrContainer(cmd.pod, cmd.container)
       THEN CmdFail("--pod and --container are required")
       ELSE cmd' = [cmd EXCEPT !.pc = "runExec", !.runExec = "called"]
    /\ UNCHANGED << sessionVars, codec, poll, ver, upd, exe, tok >>

CmdNext == CmdCheckArgs \/ CmdNewClient \/ CmdInstall \/ CmdPickPod \/ CmdRunExec

CmdSpec == CmdInit /\ [][CmdNext]_vars

(***************************************************************************)
(* versionGreaterThan and parseVersion (internal/update/update.go:172).    *)
(* A Go string is modelled as the sequence of its characters.              *)
(***************************************************************************)
Dot == <<".">>

\* a.b.c
Dotted(a, b, c) == a \o Dot \o b \o Dot \o c

\* The texts the parts of the version strings are taken from.
PartTexts == {<<"0">>, <<"9">>, <<"1", "0">>}

\* Version strings given to versionGreaterThan: every a.b.c over the part
\* texts, with and without the "v" prefix, and strings of other shapes.
VersionStrings ==
    {pre \o Dotted(a, b, c) : pre \in {<< >>, <<"v">>}, a \in PartTexts, b \in PartTexts, c \in PartTexts}
        \cup { <<"d", "e", "v">>, << >>, <<"v">>,
               <<"1", ".", "0">>, <<"1", ".", "0", ".", "0", ".", "0">>,
               <<"v", "v", "1", ".", "0", ".", "0">>, <<"V", "1", ".", "0", ".", "0">>,
               <<"-", "1", ".", "0", ".", "0">>, <<"+", "1", ".", "0", ".", "0">>,
               <<"0", "1", ".", "0", ".", "0">>, <<"1", ".", ".", "0">>,
               <<"1", ".", "0", ".", "0", "-", "r", "c">>, <<"1", ".", "x", ".", "0">> }

\* strings.TrimPrefix(s, "v")
TrimPrefixV(s) == IF s # << >> /\ s[1] = "v" THEN Tail(s) ELSE s

\* strings.SplitN(s, sep, n): at most n parts, the last one the remainder.
RECURSIVE SplitN(_, _, _)
SplitN(s, sep, n) ==
    IF n = 1 \/ ~(\E i \in 1..Len(s) : s[i] = sep)
    THEN <<s>>
    ELSE LET i == CHOOSE j \in 1..Len(s) : s[j] = sep /\ \A k \in 1..(j - 1) : s[k] # sep
         IN <<SubSeq(s, 1, i - 1)>> \o SplitN(SubSeq(s, i + 1, Len(s)), sep, n - 1)

DigitValue ==
    [c \in {"0", "1", "2", "3", "4", "5", "6", "7", "8", "9"} |->
        CASE c = "0" -> 0 [] c = "1" -> 1 [] c = "2" -> 2 [] c = "3" -> 3 [] c = "4" -> 4
          [] c = "5" -> 5 [] c = "6" -> 6 [] c = "7" -> 7 [] c = "8" -> 8 [] c = "9" -> 9]

RECURSIVE DigitsValue(_)
DigitsValue(ds) ==
    IF ds = << >> THEN 0
    ELSE 10 * DigitsValue(SubSeq(ds, 1, Len(ds) - 1)) + DigitValue[ds[Len(ds)]]

\* strconv.Atoi: an optional sign and at least one decimal digit, nothing
\* else (values here are far from the range of int).
Atoi(p) ==
    LET signed == p # << >> /\ p[1] \in {"+", "-"}
        ds     == IF signed THEN Tail(p) ELSE p
    IN IF ds = << >> \/ \E i \in 1..Len(ds) : ds[i] \notin DOMAIN DigitValue
       THEN [err |-> TRUE, n |-> 0]
       ELSE [err |-> FALSE,
             n |-> IF signed /\ p[1] = "-" THEN 0 - DigitsValue(ds) ELSE DigitsValue(ds)]

\* update.go:189-204; ok = FALSE stands for the nil slice.
parseVersion(s) ==
    LET parts == SplitN(TrimPrefixV(s), ".", 3) IN
    IF Len(parts) # 3 \/ \E i \in 1..3 : Atoi(parts[i]).err
    THEN [ok |-> FALSE, nums |-> <<0, 0, 0>>]
    ELSE [ok |-> TRUE, nums |-> [i \in 1..3 |-> Atoi(parts[i]).n]]

\* update.go:178-186, the loop from index i on.
RECURSIVE CompareFrom(_, _, _)
CompareFrom(vParts, wParts, i) ==
    IF i > 3 THEN FALSE
    ELSE IF vParts[i] > wParts[i] THEN TRUE
    ELSE IF vParts[i] < wParts[i] THEN FALSE
    ELSE CompareFrom(vParts, wParts, i + 1)

\* A comparison that stops after the major number.
versionGreaterThanMajorOnly(v, w) ==
    LET vParts == parseVersion(v) wParts == parseVersion(w) IN
    IF ~vParts.ok \/ ~wParts.ok THEN FALSE
    ELSE vParts.nums[1] > wParts.nums[1]

\* update.go:172-187
versionGreaterThan(v, w) ==
    LET vParts == parseVersion(v) wParts == parseVersion(w) IN
    IF ~vParts.ok \/ ~wParts.ok THEN FALSE
    ELSE CompareFrom(vParts.nums, wParts.nums, 1)

VerInit ==
    /\ SessionIdle
    /\ ver \in [pc : {"input"}, v : VersionStrings, w : VersionStrings,
                 vw : {FALSE}, wv : {FALSE}]
    /\ codec = CodecOff /\ poll = PollOff /\ cmd = CmdOff /\ upd = UpdOff /\ exe = ExeOff /\ tok = TokOff

\* versionGreaterThan(v, w)
VerCompare ==
    /\ ver.pc = "input"
    /\ ver' = [ver EXCEPT !.pc = "compared", !.vw = versionGreaterThan(ver.v, ver.w)]
    /\ UNCHANGED << sessionVars, codec, poll, cmd, upd, exe, tok >>

\* versionGreaterThan(w, v)
VerCompareBack ==
    /\ ver.pc = "compared"
    /\ ver' = [ver EXCEPT !.pc = "both", !.wv = versionGreaterThan(ver.w, ver.v)]
    /\ UNCHANGED << sessionVars, codec, poll, cmd, upd, exe, tok >>

VerNext == VerCompare \/ VerCompareBack

VerSpec == VerInit /\ [][VerNext]_vars

(***************************************************************************)
(* CheckForUpdate (internal/update/update.go:58): the state file, the      *)
(* fetch of the latest release and the comparison with the running         *)
(* version.  Times are hours; a stored state carries the hours elapsed     *)
(* since the check it records (negative: a time stamp in the future).      *)
(***************************************************************************)
HoursBetweenChecks == 24

NoState == [present |-> FALSE, age |-> 0, version |-> << >>]

StoredStates ==
    {NoState} \cup {[present |-> TRUE, age |-> a, version |-> <<"v", "0", ".", "9", ".", "0">>] :
                      a \in {0 - 1, 0, 23, 24, 25}}

UpdVersions ==
    { <<"0", ".", "9", ".", "0">>, <<"v", "0", ".", "1", "0", ".", "0">>, <<"d", "e", "v">> }

NoRelease == [found |-> FALSE, version |-> << >>]
Release(v) == [found |-> TRUE, version |-> v]

\* A test that also takes a check made exactly 24 hours ago as recent.
CheckedRecentlyInclusive(state) == state.present /\ state.age <= HoursBetweenChecks

\* update.go:66: state != nil && time.Since(state.CheckedForUpdateAt).Hours() < 24
CheckedRecently(state) == state.present /\ state.age < HoursBetweenChecks

UpdInit ==
    /\ SessionIdle
    /\ upd \in [pc : {"statePath"}, home : BOOLEAN, file : StoredStates,
                 was : StoredStates, current : UpdVersions,
                 state : {NoState}, fetches : {0}, release : {NoRelease},
                 result : {NoRelease}, err : {""}]
    /\ upd.was = upd.file
    /\ codec = CodecOff /\ poll = PollOff /\ cmd = CmdOff /\ ver = VerOff /\ exe = ExeOff /\ tok = TokOff

\* update.go:59-62: statePath fails when there is no home directory.
UpdStatePath ==
    /\ upd.pc = "statePath"
    /\ upd' = IF upd.home
              THEN [upd EXCEPT !.pc = "getState"]
              ELSE [upd EXCEPT !.pc = "done", !.err = "cannot find home directory"]
    /\ UNCHANGED << sessionVars, codec, poll, cmd, ver, exe, tok >>

\* update.go:65-68: a file that is missing or cannot be read gives nil.
UpdGetState ==
    /\ upd.pc = "getState"
    /\ \E readable \in BOOLEAN :
         LET st == IF readable THEN upd.file ELSE NoState IN
         upd' = IF CheckedRecently(st)
                THEN [upd EXCEPT !.pc = "done", !.state = st]
                ELSE [upd EXCEPT !.pc = "fetch", !.state = st]
    /\ UNCHANGED << sessionVars, codec, poll, cmd, ver, exe, tok >>

\* update.go:71-74: fetchLatestRelease.
UpdFetch ==
    /\ upd.pc = "fetch"
    /\ \/ upd' = [upd EXCEPT !.pc = "done", !.fetches = @ + 1, !.err = "fetch failed"]
       \/ \E v \in UpdVersions :
            upd' = [upd EXCEPT !.pc = "setState", !.fetches = @ + 1, !.release = Release(v)]
    /\ UNCHANGED << sessionVars, codec, poll, cmd, ver, exe, tok >>

\* update.go:77-83: store the result (an error of setState is ignored),
\* then report the release if it is newer than the running version.
UpdCompare ==
    /\ upd.pc = "setState"
    /\ \E written \in BOOLEAN :
         upd' = [upd EXCEPT
                   !.pc = "done",
                   !.file = IF written
                            THEN [present |-> TRUE, age |-> 0, version |-> upd.release.version]
                            ELSE @,
                   !.result = IF versionGreaterThan(upd.release.version, upd.current)
                              THEN upd.release ELSE NoRelease]
    /\ UNCHANGED << sessionVars, codec, poll, cmd, ver, exe, tok >>

UpdNext == UpdStatePath \/ UpdGetState \/ UpdFetch \/ UpdCompare

UpdSpec == UpdInit /\ [][UpdNext]_vars

(***************************************************************************)
(* Execute (unnamed/part_005:30): the command and the update-check         *)
(* goroutine, joined by the unbuffered channel updateCh.                   *)
(***************************************************************************)
DevVersion == <<"d", "e", "v">>
ExeVersions == {DevVersion, <<"0", ".", "9", ".", "0">>}
LatestVersion == <<"v", "0", ".", "1", "0", ".", "0">>

\* What root.ExecuteContext(ctx) returns.
CmdErrors == {"", "command failed"}

\* How update.CheckForUpdate(checkCtx, version) ends (update.go:58-84): a
\* newer release, (nil, nil), an error, or the 3 seconds of checkCtx run
\* out inside the fetch, which is an error as well.
CheckOutcomes == {"newer", "nothing", "failed", "timeout"}

\* rel, _ := update.CheckForUpdate(checkCtx, version)
CheckResult(outcome) == IF outcome = "newer" THEN Release(LatestVersion) ELSE NoRelease

ExeInit ==
    /\ SessionIdle
    /\ exe \in [pc : {"command"}, gpc : {"start"}, version : ExeVersions,
                 should : BOOLEAN, homebrew : BOOLEAN, recent : BOOLEAN,
                 outcome : {"none"}, rel : {NoRelease}, sends : {0}, recvs : {0},
                 got : {NoRelease}, cmdErr : {"unset"}, notice : {FALSE},
                 ret : {"unset"}]
    /\ codec = CodecOff /\ poll = PollOff /\ cmd = CmdOff /\ ver = VerOff
    /\ upd = UpdOff /\ tok = TokOff

\* A goroutine that returned without a send when no check is to be made.
ExeGoStartSilent ==
    /\ exe.gpc = "start"
    /\ exe' = IF exe.version = DevVersion \/ ~exe.should
              THEN [exe EXCEPT !.gpc = "done"]
              ELSE [exe EXCEPT !.gpc = "check"]
    /\ UNCHANGED << sessionVars, codec, poll, cmd, ver, upd, tok >>

\* part_005:36-39: if version == "dev" || !update.ShouldCheckForUpdate()
\* the goroutine goes straight to `updateCh <- nil`.
ExeGoStart ==
    /\ exe.gpc = "start"
    /\ exe' = IF exe.version = DevVersion \/ ~exe.should
              THEN [exe EXCEPT !.gpc = "send", !.rel = NoRelease]
              ELSE [exe EXCEPT !.gpc = "check"]
    /\ UNCHANGED << sessionVars, codec, poll, cmd, ver, upd, tok >>

\* part_005:40-42: the check under its own 3-second context; its error is
\* dropped.
ExeCheck ==
    /\ exe.gpc = "check"
    /\ \E o \in CheckOutcomes :
         exe' = [exe EXCEPT !.gpc = "send", !.outcome = o, !.rel = CheckResult(o)]
    /\ UNCHANGED << sessionVars, codec, poll, cmd, ver, upd, tok >>

\* part_005:46: err := root.ExecuteContext(ctx)
ExeCommand ==
    /\ exe.pc = "command"
    /\ \E e \in CmdErrors : exe' = [exe EXCEPT !.pc = "receive", !.cmdErr = e]
    /\ UNCHANGED << sessionVars, codec, poll, cmd, ver, upd, tok >>

\* part_005:38/43 and 49: updateCh is unbuffered, so the goroutine's send
\* and Execute's receive happen together; the goroutine then returns.
ExeHandOver ==
    /\ exe.gpc = "send" /\ exe.pc = "receive"
    /\ exe' = [exe EXCEPT !.gpc = "done", !.sends = @ + 1, !.recvs = @ + 1,
                          !.got = exe.rel,
                          !.pc = IF exe.rel # NoRelease THEN "notice" ELSE "return"]
    /\ UNCHANGED << sessionVars, codec, poll, cmd, ver, upd, tok >>

\* part_005:50-60: the notice, unless the binary is under Homebrew and the
\* release is less than a day old.
ExeNotice ==
    /\ exe.pc = "notice"
    /\ exe' = [exe EXCEPT !.pc = "return",
                          !.notice = ~(exe.homebrew /\ exe.recent)]
    /\ UNCHANGED << sessionVars, codec, poll, cmd, ver, upd, tok >>

\* part_005:62: return err
ExeReturn ==
    /\ exe.pc = "return"
    /\ exe' = [exe EXCEPT !.pc = "done", !.ret = exe.cmdErr]
    /\ UNCHANGED << sessionVars, codec, poll, cmd, ver, upd, tok >>

ExeNext ==
    \/ ExeGoStart \/ ExeCheck \/ ExeCommand \/ ExeHandOver \/ ExeNotice
    \/ ExeReturn

\* Both flows of Execute are scheduled, and the command is one that
\* finishes.
ExeSpec == ExeInit /\ [][ExeNext]_vars /\ WF_vars(ExeNext)

(***************************************************************************)
(* pollForToken (internal/cmd/auth/device.go:160) with the interval and    *)
(* the deadline runDeviceFlow computes for it (device.go:94-99).  Time is  *)
(* counted in whole seconds; the values stay far below the range of        *)
(* time.Duration.                                                          *)
(***************************************************************************)
MinInterval == 5
SlowDownStep == 5

\* code.Interval and code.ExpiresIn as the server may send them.
ServerIntervals == {0, 3, 5, 7}
ExpiresIns == {4, 12}

\* A timer fires at its time or later; a request takes some time.
Lateness == {0, 1}
RequestTimes == {0, 1}

\* What a token request can come back with: a response (status and body)
\* or a transport error.
TokenAnswers ==
    { [status |-> 200, body |-> "token"],
      [status |-> 200, body |-> "garbage"],
      [status |-> 400, body |-> "authorization_pending"],
      [status |-> 400, body |-> "slow_down"],
      [status |-> 400, body |-> "expired_token"],
      [status |-> 400, body |-> "access_denied"],
      [status |-> 400, body |-> "server_error"],
      [status |-> 400, body |-> "garbage"],
      [status |-> 0,   body |-> "transport error"] }

\* pollForToken's results: (tokenResp.AccessToken, nil) or ("", err).
Returned(token, err) == [token |-> token, err |-> err]
Failure(err) == Returned("", err)
Token == Returned("access token", "")

\* An interval taken from the server as it is.
StartIntervalUnclamped(served) == served

\* device.go:94-97: interval := code.Interval seconds, raised to 5 seconds
\* when it is less.
StartInterval(served) == IF served < MinInterval THEN MinInterval ELSE served

TokInit ==
    /\ SessionIdle
    /\ \E sv \in ServerIntervals, ex \in ExpiresIns :
         tok = [pc |-> "top", served |-> sv, interval |-> StartInterval(sv),
                now |-> 0, deadline |-> ex, cancelled |-> FALSE,
                reqs |-> 0, sentAt |-> 0, slow |-> 0, oks |-> 0,
                answer |-> [status |-> -1, body |-> ""], ret |-> Failure("running")]
    /\ codec = CodecOff /\ poll = PollOff /\ cmd = CmdOff /\ ver = VerOff
    /\ upd = UpdOff /\ exe = ExeOff

\* device.go:162-164: if time.Now().After(deadline) { return expired }
TokTop ==
    /\ tok.pc = "top"
    /\ tok' = IF tok.now > tok.deadline
              THEN [tok EXCEPT !.pc = "done", !.ret = Failure("device authorization expired")]
              ELSE [tok EXCEPT !.pc = "select"]
    /\ UNCHANGED << sessionVars, codec, poll, cmd, ver, upd, exe >>

\* device.go:166-170: select on ctx.Done() and time.After(interval).
TokSelect ==
    /\ tok.pc = "select"
    /\ \/ /\ tok.cancelled
          /\ tok' = [tok EXCEPT !.pc = "done", !.ret = Failure("context canceled")]
       \/ \E late \in Lateness :
             tok' = [tok EXCEPT !.pc = "request",
                                !.now = @ + tok.interval + late]
    /\ UNCHANGED << sessionVars, codec, poll, cmd, ver, upd, exe >>

\* device.go:172-186: the request is built and http.DefaultClient.Do is
\* entered; under a cancelled context it fails at once.
TokRequest ==
    /\ tok.pc = "request"
    /\ tok' = IF tok.cancelled
              THEN [tok EXCEPT !.pc = "done", !.ret = Failure("polling for token")]
              ELSE [tok EXCEPT !.pc = "await", !.reqs = @ + 1, !.sentAt = tok.now]
    /\ UNCHANGED << sessionVars, codec, poll, cmd, ver, upd, exe >>

\* The server's answer (or the failure of the transport) arrives.
\* http.DefaultClient has no timeout and ctx no deadline: nothing in the
\* program makes this step happen.
TokAnswer ==
    /\ tok.pc = "await" /\ ~tok.cancelled
    /\ \E a \in TokenAnswers, d \in RequestTimes :
         tok' = [tok EXCEPT !.pc = "handle", !.answer = a, !.now = @ + d]
    /\ UNCHANGED << sessionVars, codec, poll, cmd, ver, upd, exe >>

\* The request was made with ctx: once ctx is cancelled Do returns its
\* error.
TokDoCancelled ==
    /\ tok.pc = "await" /\ tok.cancelled
    /\ tok' = [tok EXCEPT !.pc = "handle",
                          !.answer = [status |-> 0, body |-> "transport error"]]
    /\ UNCHANGED << sessionVars, codec, poll, cmd, ver, upd, exe >>

\* device.go:183-218: what pollForToken does with the outcome of Do.
TokHandle ==
    /\ tok.pc = "handle"
    /\ LET a == tok.answer
           return(r) == [tok EXCEPT !.pc = "done", !.ret = r]
       IN  tok' =
             IF a.status = 0 THEN return(Failure("polling for token"))
             ELSE IF a.status = 200
                  THEN IF a.body = "garbage"
                       THEN return(Failure("parsing token response"))
                       ELSE [return(Token) EXCEPT !.oks = @ + 1]
             ELSE IF a.body = "garbage" THEN return(Failure("parsing error response"))
             ELSE IF a.body = "authorization_pending"
                  THEN [tok EXCEPT !.pc = "top"]
             ELSE IF a.body = "slow_down"
                  THEN [tok EXCEPT !.pc = "top", !.slow = @ + 1,
                                   !.interval = @ + SlowDownStep]
             ELSE IF a.body = "expired_token" THEN return(Failure("device code expired"))
             ELSE IF a.body = "access_denied" THEN return(Failure("authorization was denied"))
             ELSE return(Failure("unexpected error"))
    /\ UNCHANGED << sessionVars, codec, poll, cmd, ver, upd, exe >>

\* The user interrupts: main's signal.NotifyContext cancels ctx.
TokCancel ==
    /\ tok.pc \notin {"off", "done"} /\ ~tok.cancelled
    /\ tok' = [tok EXCEPT !.cancelled = TRUE]
    /\ UNCHANGED << sessionVars, codec, poll, cmd, ver, upd, exe >>

\* The steps pollForToken takes by itself.
TokStep == TokTop \/ TokSelect \/ TokRequest \/ TokDoCancelled \/ TokHandle

TokNext == TokStep \/ TokAnswer \/ TokCancel

\* pollForToken is scheduled; the server and the user are not obliged to
\* do anything.
TokSpec == TokInit /\ [][TokNext]_vars /\ WF_vars(TokStep)

(***************************************************************************)
(* Vocabulary of the properties.                                           *)
(***************************************************************************)
\* §4.6 Terminated: runExec has returned (its deferred calls have run).
Terminated == mainPc \in {"returned", "exited"}

\* The process has ended, by returning from main or by a signal.
ProcEnded == killed \/ Terminated

IsFrame(m, t) == m.ok /\ Field(m.obj, "type", "") = t

\* The remote's Close frame has been read from the connection.
CloseReceived == \E i \in 1..Len(received) : IsFrame(received[i], "close")

\* The messages the inbound pump has finished handling.
Handled ==
    IF inbPc = "dispatch" THEN SubSeq(received, 1, Len(received) - 1) ELSE received

\* The data of the Output frames of a sequence of messages, in order.
RECURSIVE OutputData(_)
OutputData(ms) ==
    IF ms = << >> THEN << >>
    ELSE IF IsFrame(Head(ms), "output")
         THEN <<Field(Head(ms).obj, "data", "")>> \o OutputData(Tail(ms))
         ELSE OutputData(Tail(ms))

WireTypes == [i \in 1..Len(wire) |-> wire[i]["type"]]

\* The messages of the Error frames of a sequence of messages, in order.
RECURSIVE ErrorMessages(_)
ErrorMessages(ms) ==
    IF ms = << >> THEN << >>
    ELSE IF IsFrame(Head(ms), "error")
         THEN <<Field(Head(ms).obj, "message", "")>> \o ErrorMessages(Tail(ms))
         ELSE ErrorMessages(Tail(ms))

\* A message the inbound pump drops: malformed JSON or an unknown type.
Dropped(m) == ~m.ok \/ Field(m.obj, "type", "") \notin {"output", "error", "close"}

\* A sequence of messages without the dropped ones.
RECURSIVE WithoutDropped(_)
WithoutDropped(ms) ==
    IF ms = << >> THEN << >>
    ELSE IF Dropped(Head(ms))
         THEN WithoutDropped(Tail(ms))
         ELSE <<Head(ms)>> \o WithoutDropped(Tail(ms))

\* The successful observations of the polling watcher, in order.
SeenSizes == SelectSeq(poll.obs, LAMBDA o : o.ok)

\* Number of changes between successive elements of a sequence.
Changes(s) == Cardinality({i \in 2..Len(s) : s[i] # s[i - 1]})

\* The Resize frames of the changes between successive sizes, in order.
RECURSIVE ChangeFrames(_)
ChangeFrames(s) ==
    IF Len(s) < 2 THEN << >>
    ELSE LET front == SubSeq(s, 1, Len(s) - 1)
             last  == s[Len(s)]
         IN IF last # s[Len(s) - 1]
            THEN Append(ChangeFrames(front), [type |-> "resize", cols |-> last.w, rows |-> last.h])
            ELSE ChangeFrames(front)

\* Decimal integer texts and the integers they denote.
Numerals ==
    { [text |-> <<"0">>, val |-> 0], [text |-> <<"1">>, val |-> 1],
      [text |-> <<"9">>, val |-> 9], [text |-> <<"1", "0">>, val |-> 10],
      [text |-> <<"0", "1">>, val |-> 1], [text |-> <<"-", "1">>, val |-> 0 - 1],
      [text |-> <<"+", "1">>, val |-> 1] }

\* The (major, minor, patch) triples a string denotes: it is, after an
\* optional leading "v", three dot-separated integers.  Empty or one triple.
Triples(s) ==
    { <<a.val, b.val, c.val>> : <<a, b, c>> \in
        { t \in Numerals \X Numerals \X Numerals :
            LET body == Dotted(t[1].text, t[2].text, t[3].text)
            IN s = body \/ s = <<"v">> \o body } }

\* Numeric lexicographic order on triples.
LexGreater(x, y) ==
    \E i \in 1..3 : x[i] > y[i] /\ \A j \in 1..(i - 1) : x[j] = y[j]

\* v denotes a greater version than w.
NewerVersion(v, w) == \E x \in Triples(v), y \in Triples(w) : LexGreater(x, y)

\* Shutdown has been triggered: done is closed or conn.Close was called.
ShutdownTriggered == doneCloses > 0 \/ closeCalls > 0

\* The inbound pump, the resize watcher and the goroutine on sigCh have
\* each returned (or were never started).
FlowsStopped ==
    /\ inbPc \in {"idle", "done"}
    /\ resPc \in {"idle", "done"}
    /\ sigPc \in {"idle", "done"}

\* The flows that watch for SIGWINCH: monitorResize, and the signal loop of
\* the older runExec.
Watchers == {"monitor", "sig"}

\* This step is a wake of the watcher on a terminal-resize notification.
WatcherWake(f) ==
    IF f = "monitor"
    THEN winchCh # << >> /\ winchCh' = << >>
    ELSE sigCh # << >> /\ Head(sigCh) = "SIGWINCH" /\ sigCh' = << >>

\* This step is the watcher handing a frame to conn.Write.
WatcherEmits(f) == pending[f] = NoFrame /\ pending'[f] # NoFrame

\* The positions of the Resize frames on the wire.
ResizeIdx == {i \in 1..Len(wire) : wire[i]["type"] = "resize"}

\* The dimensions the receiver reads from a Resize frame (an absent field
\* reads as 0).
FrameSize(obj) == <<Field(obj, "cols", 0), Field(obj, "rows", 0)>>

\* The last Resize frame written tells the current terminal size.
RemoteToldCurrentSize ==
    /\ ResizeIdx # {}
    /\ LET last == CHOOSE i \in ResizeIdx : \A j \in ResizeIdx : j <= i
       IN  FrameSize(wire[last]) = termSize

\* The errors runExec returns before the session is Active.
StartupErrors ==
    {ErrParseURL, ErrNotTerminal, ErrMakeRaw}
        \cup {[kind |-> "WebSocket connection failed", status |-> st] :
                 st \in HTTPStatuses \cup {NoStatus}}

\* The session became Active: pumps and signal goroutine were all started.
BecameActive == inbPc # "idle" /\ outPc # "idle" /\ sigPc # "idle"

\* The inbound pump was ended by a message it read (not by a read error).
EndedByMessage == inbPc = "done" /\ endCause = "RemoteClosed"

(***************************************************************************)
(* C1.  Frame writes are serialized: never two flows (outbound pump,       *)
(* resize watcher, initial sendResize) inside conn.Write at the same time. *)
(* The code calls conn.Write from the pump and from the watcher with no    *)
(* lock or funnel of its own, so the statement fails on it.                *)
(***************************************************************************)
C1_WritesSerialized == Cardinality(InWritePath) <= 1

(***************************************************************************)
(* C2.  In a session that acquired raw mode and ended by a remote Close,   *)
(* a local interrupt or a connection I/O error, the captured terminal      *)
(* state is restored exactly once: never twice, and once by the time       *)
(* runExec has returned.                                                   *)
(***************************************************************************)
C2_RestoredExactlyOnce ==
    /\ restoreCount <= 1
    /\ (Terminated /\ rawAcquired) =>
          /\ endCause \in {"RemoteClosed", "LocalInterrupt", "IOError"}
          /\ restoreCount = 1
          /\ termMode = "cooked"

C2_Witness ==
    /\ mainPc = "returned" /\ rawAcquired /\ restoreCount = 1
    /\ endCause = "IOError"

(***************************************************************************)
(* C3.  Once raw mode was acquired the terminal is restored on every path  *)
(* by which the process ends, a signal included: whenever the process has  *)
(* ended, the terminal is back in its original mode.  Fails on the code:   *)
(* SIGTERM ends the process while the terminal is raw.                     *)
(***************************************************************************)
C3_RestoredWhenProcessEnds ==
    ((killed \/ mainPc = "exited") /\ rawAcquired) => termMode = "cooked"

(***************************************************************************)
(* C4.  No Input frame is on the wire unless the session's initial Resize  *)
(* frame was written before it.  Fails on the code: sendResize returns     *)
(* without writing when the size query fails, and the pump still sends.    *)
(***************************************************************************)
C4_InputOnlyAfterResize ==
    \A i \in 1..Len(wire) :
        WireTypes[i] = "input" => WireTypes[1] = "resize"

(***************************************************************************)
(* C5.  Leaving Active is exactly-once: however the terminating events     *)
(* (remote Close or read error, local interrupt) combine, done and         *)
(* resizeStop are each closed at most once, the teardown runs once, and    *)
(* done has been closed exactly once when runExec has returned from an     *)
(* Active session.                                                         *)
(***************************************************************************)
C5_ExactlyOnceTransition ==
    /\ doneCloses <= 1
    /\ resizeStopCloses <= 1
    /\ restoreCount <= 1
    /\ (Terminated /\ rawAcquired) => doneCloses = 1

C5_Witness ==
    /\ CloseReceived /\ intrActive
    /\ mainPc = "returned"
    /\ doneCloses = 1 /\ resizeStopCloses = 1

(***************************************************************************)
(* C6.  An I/O error of either pump ends the session: once the outbound    *)
(* pump has failed (stdin error or EOF, failed Input write) or the inbound *)
(* pump has failed (connection read error), the process eventually ends.   *)
(* Fails on the code: nothing reacts to the outbound pump's return.        *)
(***************************************************************************)
C6_PumpFailureEndsSession ==
    []((outFailed \/ endCause = "IOError") => <>ProcEnded)

(***************************************************************************)
(* C7.  After the remote's Close frame has been read, the inbound pump     *)
(* handles no later message and stops, runExec eventually returns (unless  *)
(* a signal ends the process first), it returns nil and the exit code is 0.*)
(***************************************************************************)
C7_RemoteCloseTerminates ==
    /\ [](CloseReceived =>
            /\ IsFrame(received[Len(received)], "close")
            /\ inbPc \in {"dispatch", "done"}
            /\ (Terminated => retVal = Nil)
            /\ (mainPc = "exited" => exitCode = 0))
    /\ [](CloseReceived => <>ProcEnded)

C7_Witness ==
    /\ CloseReceived /\ endCause = "RemoteClosed"
    /\ mainPc = "exited" /\ exitCode = 0 /\ retVal = Nil

(***************************************************************************)
(* C8.  An interrupt signal delivered to an Active session always          *)
(* eventually ends it, also when a resize notification is pending.  Fails  *)
(* on the code: with SIGWINCH waiting in the 1-slot channel a SIGTERM is   *)
(* dropped and nothing ends the session.                                   *)
(***************************************************************************)
C8_InterruptEndsSession == [](intrActive => <>ProcEnded)

(***************************************************************************)
(* C9.  A failed dial makes runExec return the connection error, carrying  *)
(* the HTTP status exactly when a handshake response was available; the    *)
(* dial is attempted once, the terminal never enters raw mode, and no      *)
(* pump, watcher or signal listener is started.                            *)
(***************************************************************************)
C9_DialFailure ==
    /\ dialCount <= 1
    /\ dialResult = "failed" =>
          /\ retVal = [kind |-> "WebSocket connection failed", status |-> dialResp]
          /\ ~rawAcquired /\ termMode = "cooked"
          /\ inbPc = "idle" /\ outPc = "idle" /\ resPc = "idle" /\ sigPc = "idle"
          /\ notified = {} /\ ~winchNotified
          /\ wire = << >>

C9_Witness ==
    /\ dialResult = "failed" /\ dialResp = 401
    /\ mainPc = "returned" /\ retVal.status = 401

(***************************************************************************)
(* C10.  Standard output holds exactly the data of the Output frames the   *)
(* inbound pump has handled, in arrival order: nothing lost, duplicated,   *)
(* reordered, or kept back while the pump waits for the next frame.        *)
(***************************************************************************)
C10_OutputInArrivalOrder == stdout = OutputData(Handled)

C10_Witness == stdout = <<"a", "b">> /\ inbPc = "read"

(***************************************************************************)
(* C11.  An Error frame received in an Active session puts its notice on   *)
(* the error stream and does not end the session: the notices written are  *)
(* exactly the messages of the Error frames handled, the pump is only ever *)
(* ended by a Close frame or a read error, and the Output frames handled   *)
(* after an Error frame are on standard output.                            *)
(***************************************************************************)
C11_ErrorFrameContinues ==
    /\ inbPc # "idle" => stderr = ErrorMessages(Handled)
    /\ EndedByMessage => IsFrame(received[Len(received)], "close")
    /\ stdout = OutputData(Handled)
    /\ (Handled # << >> /\ IsFrame(Handled[Len(Handled)], "error") /\ inbPc # "dispatch")
          => (inbPc = "read" \/ endCause \in {"LocalInterrupt", "IOError"})

C11_Witness ==
    /\ Len(received) = 2
    /\ IsFrame(received[1], "error") /\ IsFrame(received[2], "output")
    /\ stderr = <<"e">> /\ stdout = <<"a">>
    /\ inbPc = "read"

(***************************************************************************)
(* C12.  A received message that is malformed JSON or has an unknown type  *)
(* is dropped without effect: standard output and the error stream hold    *)
(* what they would hold had the dropped messages never arrived, a dropped  *)
(* message never ends the pump, and the messages after it are handled.     *)
(***************************************************************************)
C12_DroppedWithoutEffect ==
    /\ stdout = OutputData(WithoutDropped(Handled))
    /\ inbPc # "idle" => stderr = ErrorMessages(WithoutDropped(Handled))
    /\ EndedByMessage => ~Dropped(received[Len(received)])
    /\ (Handled # << >> /\ Dropped(Handled[Len(Handled)]) /\ inbPc # "dispatch")
          => (inbPc = "read" \/ endCause \in {"LocalInterrupt", "IOError"})

C12_Witness ==
    /\ Len(received) = 2
    /\ ~received[1].ok /\ IsFrame(received[2], "output")
    /\ stdout = <<"a">> /\ stderr = << >>
    /\ inbPc = "read"

C16_WitnessActive ==
    /\ mainPc = "exited" /\ intrActive /\ endCause = "LocalInterrupt"
    /\ retVal = Nil /\ exitCode = 0

(***************************************************************************)
(* C19.  The outbound pump's termination (stdin error, EOF or zero-length  *)
(* read, failed Input write) does not close the connection and changes     *)
(* nothing but the pump's own state: the step leaves the connection, the   *)
(* context, the inbound pump, the resize watcher, the signal goroutine,    *)
(* both channels and runExec itself as they were, and afterwards standard  *)
(* output still holds every Output frame the inbound pump handles.         *)
(***************************************************************************)
C19_OutboundEndIsSilent ==
    /\ [][(outPc # "done" /\ outPc' = "done") =>
            /\ conn' = conn /\ ctxCancelled' = ctxCancelled
            /\ wire' = wire
            /\ \A f \in Flows \ {"outbound"} : pending'[f] = pending[f]
            /\ UNCHANGED << inbPc, rdMsg, received, stdout, stderr, endCause >>
            /\ UNCHANGED << resPc, sigPc, sigVars, chanVars >>
            /\ UNCHANGED << mainVars, termVars, killed >>]_vars
    /\ [](outPc = "done" => stdout = OutputData(Handled))

C19_Witness ==
    /\ outPc = "done" /\ outFailed
    /\ conn = "open" /\ ~ctxCancelled
    /\ inbPc = "read" /\ stdout = <<"a">>
    /\ impl = "monitor" /\ resPc = "select" /\ resizeStopCloses = 0
    /\ Active

(***************************************************************************)
(* C20.  A session that left Active on a local trigger (interrupt signal,  *)
(* local I/O error) has made its best-effort close send, conn.Close, by    *)
(* the time runExec has returned; one that left Active on a remote trigger *)
(* (Close frame, disconnect) has made none; and once conn.Close was called *)
(* the process still ends, whatever became of the send.  Fails on the      *)
(* code: only the signal goroutine calls conn.Close, and runExec can       *)
(* return without that goroutine having taken the signal.                  *)
(***************************************************************************)
C20_CloseSentOnLocalTrigger ==
    /\ [](Terminated =>
            /\ trigger \in {"interrupt", "localio"} => closeCalls >= 1
            /\ trigger = "remote" => closeCalls = 0)
    /\ [](closeCalls > 0 => <>ProcEnded)

(***************************************************************************)
(* C13.  Encoding then decoding is the identity on frames: the frame the   *)
(* receiver unmarshals equals the frame the sender marshalled, for every   *)
(* variant and every byte chunk.  Fails on the code: json.Marshal replaces *)
(* each byte of the chunk that is not valid UTF-8 by U+FFFD.               *)
(***************************************************************************)
C13_RoundTrip == codec.pc = "back" => codec.back = codec.frame

C15_RequiredParameters ==
    /\ (~cmd.interactive /\ (cmd.args = << >> \/ cmd.podFlag = "" \/ cmd.containerFlag = ""))
          => /\ cmd.runExec = "no" /\ cmd.pc # "runExec"
             /\ cmd.requests = 0
             /\ cmd.pc = "require" => (cmd.pod = "" \/ cmd.container = "")
    /\ cmd.runExec = "called" => cmd.pod # "" /\ cmd.container # ""

C15_Witness ==
    /\ ~cmd.interactive /\ cmd.args # << >> /\ cmd.podFlag = "p1" /\ cmd.containerFlag = ""
    /\ cmd.pc = "failed" /\ cmd.err = "--pod and --container are required"
    /\ cmd.runExec = "no" /\ cmd.requests = 0

(***************************************************************************)
(* C17.  versionGreaterThan(v, w) is true exactly when v and w are both,   *)
(* after an optional leading "v", three dot-separated integers and v's     *)
(* (major, minor, patch) is greater than w's in numeric lexicographic      *)
(* order; so it is false for equal versions and for a string that does     *)
(* not parse, and never true in both directions.                           *)
(***************************************************************************)
C17_VersionOrder ==
    /\ ver.pc \in {"compared", "both"} =>
          /\ ver.vw <=> NewerVersion(ver.v, ver.w)
          /\ ver.v = ver.w => ~ver.vw
          /\ (Triples(ver.v) = {} \/ Triples(ver.w) = {}) => ~ver.vw
    /\ ver.pc = "both" =>
          /\ ver.wv <=> NewerVersion(ver.w, ver.v)
          /\ ~(ver.vw /\ ver.wv)

C17_Witness ==
    /\ ver.pc = "both"
    /\ ver.v = <<"0", ".", "1", "0", ".", "0">> /\ ver.w = <<"v", "0", ".", "9", ".", "0">>
    /\ ver.vw /\ ~ver.wv

(***************************************************************************)
(* C18, as stated.  When the stored state records a check made less than   *)
(* 24 hours ago CheckForUpdate returns no release, fetches nothing and     *)
(* leaves the state as it was; otherwise it fetches the latest release     *)
(* and returns it only if its version is greater than the current one.     *)
(* Fails on the code where the state file's path cannot be determined:     *)
(* nothing is fetched then.                                                *)
(***************************************************************************)
C18_AsStated ==
    upd.pc = "done" =>
        IF upd.state.present /\ upd.state.age < 24
        THEN upd.result = NoRelease /\ upd.fetches = 0 /\ upd.file = upd.was
        ELSE /\ upd.fetches = 1
             /\ upd.result # NoRelease =>
                   /\ upd.result = upd.release
                   /\ NewerVersion(upd.release.version, upd.current)

(***************************************************************************)
(* C18, amended.  If the path of the state file cannot be determined       *)
(* CheckForUpdate returns that error: no release, no fetch, state          *)
(* untouched.  Otherwise: a state read from the file that records a check  *)
(* less than 24 hours old gives no release, no fetch and an unchanged      *)
(* state; in every other case the release is fetched, exactly once, and    *)
(* the result is that release exactly when the fetch succeeded and its     *)
(* version is greater than the current version, and no release otherwise.  *)
(***************************************************************************)
C18_CheckForUpdate ==
    /\ upd.fetches <= 1
    /\ upd.pc = "done" =>
          IF ~upd.home
          THEN /\ upd.result = NoRelease /\ upd.err # ""
               /\ upd.fetches = 0 /\ upd.file = upd.was
          ELSE IF upd.state.present /\ upd.state.age < 24
          THEN /\ upd.result = NoRelease /\ upd.err = ""
               /\ upd.fetches = 0 /\ upd.file = upd.was
          ELSE /\ upd.fetches = 1
               /\ upd.result # NoRelease <=>
                     (upd.release.found /\ NewerVersion(upd.release.version, upd.current))
               /\ upd.result # NoRelease => upd.result = upd.release
               /\ ~upd.release.found => upd.err # "" /\ upd.file = upd.was

C18_Witness ==
    /\ upd.pc = "done" /\ upd.home
    /\ upd.was.present /\ upd.was.age = 24 /\ upd.state = upd.was
    /\ upd.current = <<"0", ".", "9", ".", "0">>
    /\ upd.result = Release(<<"v", "0", ".", "1", "0", ".", "0">>)
    /\ upd.fetches = 1 /\ upd.file.age = 0

(***************************************************************************)
(* C21.  Once shutdown has been triggered, the inbound pump, the resize    *)
(* watcher and the interrupt listener goroutine all eventually return,     *)
(* unless the process has ended before; only the outbound pump may stay    *)
(* blocked.  Fails on the code: the loop ranging over sigCh                *)
(* (unnamed/part_008:855) has no way out but a signal.                     *)
(***************************************************************************)
C21_FlowsStopAfterShutdown ==
    [](ShutdownTriggered => <>(FlowsStopped \/ killed \/ mainPc = "exited"))

C23_StartFailureReleases ==
    retVal \in {ErrNotTerminal, ErrMakeRaw} =>
        /\ termMode = "cooked" /\ ~rawAcquired /\ restoreCount = 0
        /\ wire = << >>
        /\ \A f \in Flows : pending[f] = NoFrame
        /\ inbPc = "idle" /\ outPc = "idle" /\ resPc = "idle" /\ sigPc = "idle"
        /\ notified = {} /\ ~winchNotified
        /\ dialResult = "ok"
        /\ Terminated => conn = "closed" /\ defers = << >>

\* runExec has returned the raw-mode error after a dial that succeeded.
C23_Witness ==
    /\ mainPc = "returned" /\ retVal = ErrMakeRaw
    /\ dialResult = "ok" /\ conn = "closed"

(***************************************************************************)
(* C24.  Every Resize frame written to the wire carries both a cols and a  *)
(* rows field, holding dimensions the size query can return.  Fails on the *)
(* code: both fields are omitempty, so a dimension of 0 is left out of the *)
(* frame.                                                                  *)
(***************************************************************************)
C24_ResizeCarriesBoth ==
    \A i \in 1..Len(wire) :
        wire[i]["type"] = "resize" =>
            /\ {"cols", "rows"} \subseteq DOMAIN wire[i]
            /\ <<wire[i]["cols"], wire[i]["rows"]>> \in Sizes

(***************************************************************************)
(* C25.  In a session that stays Active with a writable connection and a   *)
(* terminal whose size can be queried, once the size has stopped changing  *)
(* the last Resize frame written carries the current dimensions.  Fails on *)
(* the code: a size change that falls between the initial sendResize and   *)
(* the watcher's signal.Notify is never reported.                          *)
(***************************************************************************)
C25_RemoteToldCurrentSize ==
    <>[](Active /\ WriteOK /\ stdoutTTY) => <>[]RemoteToldCurrentSize

(***************************************************************************)
(* C26.  Remote output is written to standard output only while the        *)
(* terminal is in raw mode: every write of an Output frame's data happens  *)
(* in raw mode before any restore, and the terminal is restored only after *)
(* the inbound pump has terminated.                                        *)
(***************************************************************************)
C26_OutputOnlyInRawMode ==
    /\ [][stdout' # stdout =>
            termMode = "raw" /\ termMode' = "raw" /\ restoreCount = 0]_vars
    /\ [](restoreCount > 0 => inbPc = "done" /\ doneCloses > 0)

\* Output was written to standard output and the terminal has been restored.
C26_Witness ==
    /\ restoreCount > 0 /\ termMode = "cooked"
    /\ stdout # << >>
    /\ mainPc = "returned"

(***************************************************************************)
(* C27.  Once the terminal state has been restored no further frame is     *)
(* written to the connection, by the outbound pump or by the resize        *)
(* watcher.  Fails on the code: the deferred term.Restore runs before the  *)
(* deferred conn.CloseNow, and the pump and the watcher are still running. *)
(***************************************************************************)
C27_NoFrameAfterRestore ==
    [][restoreCount > 0 => wire' = wire]_vars

(***************************************************************************)
(* C28.  On every path of the update check the goroutine sends exactly one *)
(* value on updateCh and Execute receives exactly one value, after the     *)
(* command has finished; Execute always returns, with the command's own    *)
(* error whatever the update check gave.                                   *)
(***************************************************************************)
C28_ExecuteReturnsCommandError ==
    /\ [](exe.sends <= 1 /\ exe.recvs <= 1)
    /\ [](exe.recvs > 0 => exe.cmdErr \in CmdErrors)
    /\ [](exe.pc = "done" =>
            /\ exe.sends = 1 /\ exe.recvs = 1 /\ exe.gpc = "done"
            /\ exe.ret = exe.cmdErr /\ exe.ret \in CmdErrors)
    /\ <>(exe.pc = "done")

\* Execute has returned the error of a failed command although the check
\* found a newer release and announced it.
C28_Witness ==
    /\ exe.pc = "done" /\ exe.ret = "command failed"
    /\ exe.outcome = "newer" /\ exe.got # NoRelease /\ exe.notice

(***************************************************************************)
(* C29.  The wait before each token request is at least the interval, the  *)
(* interval is never below 5 seconds and never decreases: it starts at the *)
(* larger of the server's interval and 5 seconds, is left alone by         *)
(* authorization_pending and grows by exactly 5 seconds with each          *)
(* slow_down.                                                              *)
(***************************************************************************)
C29_IntervalNeverShrinks ==
    /\ [](/\ tok.interval >= 5
          /\ tok.interval >= tok.served
          /\ tok.interval = (IF tok.served > 5 THEN tok.served ELSE 5) + 5 * tok.slow)
    /\ [][/\ tok'.interval >= tok.interval
          /\ tok.pc = "handle" /\ tok'.pc = "top"
                /\ tok.answer.body = "authorization_pending"
                => tok'.interval = tok.interval
          /\ tok.pc = "handle" /\ tok'.pc # "handle"
                /\ tok.answer.body = "slow_down"
                => tok'.interval = tok.interval + 5 /\ tok'.pc = "top"
          /\ tok.pc = "select" /\ tok'.pc = "request"
                => tok'.now - tok.now >= tok.interval
          /\ tok.pc = "request" /\ tok'.pc = "await" /\ tok.reqs > 0
                => tok.now - tok.sentAt >= tok.interval]_vars

\* A second request has gone out after a slow_down answer, with the
\* interval grown from the 5-second floor.
C29_Witness ==
    /\ tok.served < 5 /\ tok.slow = 1 /\ tok.interval = 10
    /\ tok.reqs = 2 /\ tok.pc = "await"

(***************************************************************************)
(* C30.  pollForToken always terminates, and with the stated result: the   *)
(* access token on an HTTP 200, an error on expired_token, access_denied,  *)
(* any other error code, a transport or parse failure or a cancelled       *)
(* context, and the expiry error exactly at the first loop iteration that  *)
(* starts after the deadline.  Fails on the code: a request that is never  *)
(* answered keeps pollForToken inside http.DefaultClient.Do for ever.      *)
(***************************************************************************)
C30_PollTerminates ==
    /\ [](tok.pc = "done" =>
            /\ tok.ret # Failure("running")
            /\ tok.ret = Token <=> tok.answer = [status |-> 200, body |-> "token"]
            /\ tok.ret = Failure("device code expired") <=> tok.answer.body = "expired_token"
            /\ tok.ret = Failure("authorization was denied") <=> tok.answer.body = "access_denied"
            /\ tok.ret = Failure("unexpected error") <=> tok.answer.body = "server_error"
            /\ tok.answer.body = "garbage" =>
                  tok.ret = IF tok.answer.status = 200
                            THEN Failure("parsing token response")
                            ELSE Failure("parsing error response")
            /\ tok.answer.status = 0 => tok.ret = Failure("polling for token")
            /\ tok.ret = Failure("device authorization expired") => tok.now > tok.deadline)
    /\ [][tok.pc = "top" /\ tok'.pc # "top" =>
            IF tok.now > tok.deadline
            THEN tok'.pc = "done" /\ tok'.ret = Failure("device authorization expired")
            ELSE tok'.pc = "select"]_vars
    /\ <>(tok.pc = "done")

====
